---- MODULE Spec2Model ----
(***************************************************************************)
(* Model of the concurrent LRU cache (src/lru/lru.go), of the LRU list     *)
(* that backs it (src/lru/list.go) and of the general concurrent list      *)
(* (src/list.go).  Spec and LiveSpec run the cache, ListSpec the LRU list  *)
(* called directly, GenSpec the general list.                              *)
(*                                                                         *)
(* Processes: the client threads, the background cleanupWorker and one     *)
(* goroutine per asynchronous insertFront.  Every mutex acquisition, every *)
(* atomic operation and every unsynchronised field access that another     *)
(* process can observe is a step of its own.  A critical section that      *)
(* blocks nowhere (lock, access, unlock) is one step, guarded by the mutex *)
(* being free; the cleanup mutex is only ever held in such sections, so it *)
(* needs no variable: its sections are single steps.                       *)
(***************************************************************************)
EXTENDS Integers, Sequences, FiniteSets, TLC

\* ------------------------------------------------------------- bounds ----
MaxOps == 3          \* operations a client thread issues
MaxCap == 2          \* largest capacity given to NewWithEvict

Threads == {1, 2}    \* client threads
Callers == {1}       \* the threads that call the cache (Add, Get, Peek, Close)
Keys == 1..MaxOps    \* string keys: as many as a thread can add
MaxElems == Cardinality(Callers) * MaxOps   \* one element per counted Add
MaxCopied == 1       \* elements a copy of a list can take beyond those
Elems == 1..(MaxElems + MaxCopied)
ItemIds == 1..MaxElems

\* ---------------------------------------------------------- encoding ----
Nil == 0             \* nil pointer, nil interface, absent map entry
Unlocked == 0        \* zero value of sync.Mutex
Evict == 1           \* the list c.evict
Other == 2           \* a second list, made by newList as well
Lists == {Evict, Other}
HeadOf(l) == 0 - l         \* &l.head
TailOf(l) == 0 - 10 - l    \* &l.tail
Sentinels == {HeadOf(l) : l \in Lists} \cup {TailOf(l) : l \in Lists}
Nodes == Elems \cup Sentinels
Worker == Cardinality(Threads) + 1       \* the goroutine of cleanupWorker
Procs == Threads \cup {Worker}
TaskOf(e) == Worker + e                  \* the goroutine of insertFront(e)

VARIABLES
  \* element and list (src/lru/list.go)
  next, prev, list, mutex, Value, l_len, pendingInsertions, closed,
  nElems, tpc, tlist,
  \* LRU (src/lru/lru.go)
  capacity, len, items, item, nItems, workers,
  \* control state of the client threads and of the worker
  pc, reg, op,
  \* observations: calls of onEvict, the Adds that returned, the last call
  \* that returned, the number of calls issued, popped entries, the size
  \* the cache was made with
  evictLog, adds, last, nOps, popped, size, panicked,
  \* the reference sequences of the lists while they are used sequentially
  ref

listVars == <<next, prev, list, mutex, Value, l_len, pendingInsertions, closed,
              nElems, tpc, tlist>>
cacheVars == <<capacity, len, items, item, nItems, workers>>
procVars == <<pc, reg, op>>
obsVars == <<evictLog, adds, last, nOps, popped, size, panicked, ref>>
vars == <<listVars, cacheVars, procVars, obsVars>>

\* the record of a call that returned: its name and arguments, what it
\* returned (ok, out), the map entry it worked on, and for a Get the entry
\* stored by the Add of the same key that the thread made just before it
Call(name, key, val, ok, out, it, after) ==
  [name |-> name, key |-> key, val |-> val, ok |-> ok, out |-> out, it |-> it,
   after |-> after]
NoCall == Call("none", Nil, Nil, FALSE, Nil, Nil, Nil)

\* registers of a process: the locals of the function it is executing
NoReg == [e |-> Nil, p |-> Nil, who |-> "none", n |-> 0, it |-> Nil, l |-> Evict,
          ok |-> FALSE, at |-> Nil, tmp |-> << >>]

\* the reference model of the lists used sequentially (every call issued with
\* no other call running and no insertion pending): the sequences of their
\* nodes, and of the last call its caller, its list (to), its node, what it
\* has to return (the node of a PopBack, the flag of a MoveToFront), the
\* list its node was in, and whether it repeated the MoveToFront before it
\* without a wait.  following is FALSE once a call was issued out of that
\* discipline.  For the general list it holds the lists as they were when no
\* call was running last: their nodes (s), their counters (len), every
\* element's list, and the number of calls made since.
NoRef == [following |-> FALSE, s |-> [l \in Lists |-> << >>], e |-> Nil, ret |-> Nil,
          flag |-> FALSE, from |-> Nil, rep |-> FALSE, by |-> Nil, to |-> Nil,
          len |-> [l \in Lists |-> 0], list |-> [x \in Elems |-> Nil], calls |-> 0]

\* ------------------------------------------------------------- Init ----
\* newList (list.go:47-61): head <-> tail, both counters 0
newList ==
  /\ next = [x \in Nodes |-> IF \E l \in Lists : x = HeadOf(l) THEN TailOf(0 - x) ELSE Nil]
  /\ prev = [x \in Nodes |-> IF \E l \in Lists : x = TailOf(l) THEN HeadOf(0 - 10 - x) ELSE Nil]
  /\ list = [x \in Nodes |-> IF x \in Elems THEN Nil
                             ELSE IF x > 0 - 10 THEN 0 - x ELSE 0 - 10 - x]
  /\ mutex = [x \in Nodes |-> Unlocked]
  /\ Value = [x \in Elems |-> Nil]
  /\ l_len = [l \in Lists |-> 0]
  /\ pendingInsertions = [l \in Lists |-> 0]
  /\ closed = [l \in Lists |-> FALSE]
  /\ nElems = 0
  /\ tpc = [e \in Elems |-> "none"]
  /\ tlist = [e \in Elems |-> Nil]

\* NewWithEvict (lru.go:36-53): size > 0, empty map, worker started
NewWithEvict ==
  /\ size \in 1..MaxCap
  /\ capacity = size
  /\ len = 0
  /\ items = [k \in Keys |-> Nil]
  /\ item = [i \in ItemIds |-> [key |-> Nil, value |-> Nil, evictElement |-> Nil]]
  /\ nItems = 0
  /\ workers = 1

Init ==
  /\ newList
  /\ NewWithEvict
  /\ pc = [p \in Procs |-> IF p = Worker THEN "w_start" ELSE "idle"]
  /\ reg = [p \in Procs |-> NoReg]
  /\ op = [t \in Threads |->
             [name |-> "none", key |-> Nil, val |-> Nil, after |-> Nil, found |-> Nil]]
  /\ evictLog = << >>
  /\ adds = [t \in Threads |-> << >>]
  /\ last = [t \in Threads |-> NoCall]
  /\ nOps = [t \in Threads |-> 0]
  /\ popped = {}
  /\ panicked = FALSE
  /\ ref = NoRef

\* ---------------------------------------------------------- helpers ----
Goto(p, label) == pc' = [pc EXCEPT ![p] = label]

\* a Go panic ends the whole program
Panic(p) ==
  /\ pc' = [pc EXCEPT ![p] = "panic"]
  /\ panicked' = TRUE

\* a client thread calls the list directly, as TestList and TestMove do
Direct(p) == p \in Threads /\ op[p].name \in {"PushFront", "MoveToFront", "PopBack"}

\* where PopBack returns to: cleanupWorker, lru.go:84-88, or the caller
AfterPopBack(p, e) ==
  IF Direct(p) THEN "l_ret" ELSE IF e = Nil THEN "w_restore" ELSE "w_removecb"

\* where MoveToFront returns to: Get, lru.go:175, or the caller
AfterMoveToFront(p) == IF Direct(p) THEN "l_ret" ELSE "get_ret"

\* where PushFront returns to: Add, lru.go:156, or the caller
AfterPushFront(p) == IF Direct(p) THEN "l_ret" ELSE "add_assign"

\* where remove returns to when it removed nothing: PopBack (list.go:150-153)
\* returns nil, MoveToFront (list.go:170-176) goes on to read e.list
AfterRemoveFailed(p) ==
  IF reg[p].who = "pb" THEN AfterPopBack(p, Nil) ELSE "mtf_list"

\* ------------------------------------------------- list: insertFront ----
\* insertFront, list.go:69-71: h.mutex.Lock()
IFLockH(e) ==
  /\ ~panicked
  /\ tpc[e] = "lock_h"
  /\ mutex[HeadOf(tlist[e])] = Unlocked
  /\ mutex' = [mutex EXCEPT ![HeadOf(tlist[e])] = TaskOf(e)]
  /\ tpc' = [tpc EXCEPT ![e] = "lock_e"]
  /\ UNCHANGED <<next, prev, list, Value, l_len, pendingInsertions, closed, nElems, tlist>>
  /\ UNCHANGED <<cacheVars, procVars, obsVars>>

\* insertFront, list.go:72-73: e.mutex.Lock()
IFLockE(e) ==
  /\ ~panicked
  /\ tpc[e] = "lock_e"
  /\ mutex[e] = Unlocked
  /\ mutex' = [mutex EXCEPT ![e] = TaskOf(e)]
  /\ tpc' = [tpc EXCEPT ![e] = "link"]
  /\ UNCHANGED <<next, prev, list, Value, l_len, pendingInsertions, closed, nElems, tlist>>
  /\ UNCHANGED <<cacheVars, procVars, obsVars>>

\* insertFront, list.go:74-85: lock n = h.next, link e between h and n,
\* e.list = l, pendingInsertions -= 1, then the deferred unlocks
IFLink(e) ==
  LET l == tlist[e]
      h == HeadOf(l)
      n == next[h]
  IN /\ ~panicked
     /\ tpc[e] = "link"
     /\ mutex[n] = Unlocked
     /\ next' = [next EXCEPT ![h] = e, ![e] = n]
     /\ prev' = [prev EXCEPT ![e] = h, ![n] = e]
     /\ list' = [list EXCEPT ![e] = l]
     /\ pendingInsertions' = [pendingInsertions EXCEPT ![l] = @ - 1]
     /\ mutex' = [mutex EXCEPT ![h] = Unlocked, ![e] = Unlocked]
     /\ tpc' = [tpc EXCEPT ![e] = "none"]
     /\ UNCHANGED <<Value, l_len, closed, nElems, tlist>>
     /\ UNCHANGED <<cacheVars, procVars, obsVars>>

\* --------------------------------------------------- list: PopBack ----
\* predecessor(&l.tail), list.go:90-91 and 100-101: lock tail, read
\* tail.prev, unlock tail
PBPredRead(p) ==
  LET x == TailOf(reg[p].l)
  IN /\ ~panicked
     /\ pc[p] = "pb_pred_read"
     /\ mutex[x] = Unlocked
     /\ IF prev[x] = Nil
          THEN \* predecessor returns nil and PopBack unlocks it (list.go:146)
               /\ Panic(p)
               /\ UNCHANGED reg
          ELSE /\ reg' = [reg EXCEPT ![p].p = prev[x]]
               /\ Goto(p, "pb_pred_lock")
               /\ UNCHANGED panicked
     /\ UNCHANGED <<listVars, cacheVars, op, evictLog, adds, last, nOps, popped, size, ref>>

\* mutant: PopBack does not return nil from an empty list while insertions
\* are pending, it looks again
PBPredLockWaits(p) ==
  LET x == TailOf(reg[p].l)
      q == reg[p].p
  IN /\ ~panicked
     /\ pc[p] = "pb_pred_lock"
     /\ mutex[q] = Unlocked
     /\ IF next[q] = x
          THEN IF q = HeadOf(reg[p].l)
                 THEN IF pendingInsertions[reg[p].l] > 0
                        THEN /\ Goto(p, "pb_pred_read")
                             /\ UNCHANGED reg
                        ELSE /\ Goto(p, AfterPopBack(p, Nil))
                             /\ reg' = [reg EXCEPT ![p].e = Nil]
                 ELSE /\ Goto(p, "rm_pred_read")
                      /\ reg' = [reg EXCEPT ![p].e = q, ![p].who = "pb"]
          ELSE /\ Goto(p, "pb_pred_read")
               /\ UNCHANGED reg
     /\ UNCHANGED <<listVars, cacheVars, op, obsVars>>

\* predecessor(&l.tail), list.go:94-99, and PopBack, list.go:146-150: lock
\* p; if p.next == tail, p is the last node: unlock it again, return nil if
\* it is the head and go on to remove(p, true, nil) if not; else unlock p
\* and read tail.prev again
PBPredLock(p) ==
  LET x == TailOf(reg[p].l)
      q == reg[p].p
  IN /\ ~panicked
     /\ pc[p] = "pb_pred_lock"
     /\ mutex[q] = Unlocked
     /\ IF next[q] = x
          THEN IF q = HeadOf(reg[p].l)
                 THEN /\ Goto(p, AfterPopBack(p, Nil))
                      /\ reg' = [reg EXCEPT ![p].e = Nil]
                 ELSE /\ Goto(p, "rm_pred_read")
                      /\ reg' = [reg EXCEPT ![p].e = q, ![p].who = "pb"]
          ELSE /\ Goto(p, "pb_pred_read")
               /\ UNCHANGED reg
     /\ UNCHANGED <<listVars, cacheVars, op, obsVars>>

\* ---------------------------------------------------- list: remove ----
\* remove's arguments: PopBack calls remove(e, true, nil) (list.go:150),
\* MoveToFront calls remove(e, false, l) (list.go:169)
validateList(p) == reg[p].who = "pb"
newListArg(p) == IF reg[p].who = "pb" THEN Nil ELSE reg[p].l

\* predecessor(e), list.go:90-91, 100-104: lock e, read e.prev, unlock e;
\* nil if e.prev is nil (remove then returns e, false: list.go:112-115)
RMPredRead(p) ==
  LET e == reg[p].e
  IN /\ ~panicked
     /\ pc[p] = "rm_pred_read"
     /\ mutex[e] = Unlocked
     /\ IF prev[e] = Nil
          THEN /\ Goto(p, AfterRemoveFailed(p))
               /\ reg' = [reg EXCEPT ![p].e = IF reg[p].who = "pb" THEN Nil ELSE @]
          ELSE /\ Goto(p, "rm_pred_lock")
               /\ reg' = [reg EXCEPT ![p].p = prev[e]]
     /\ UNCHANGED <<listVars, cacheVars, op, obsVars>>

\* predecessor(e), list.go:94-99
RMPredLock(p) ==
  LET e == reg[p].e
      q == reg[p].p
  IN /\ ~panicked
     /\ pc[p] = "rm_pred_lock"
     /\ mutex[q] = Unlocked
     /\ IF next[q] = e
          THEN /\ mutex' = [mutex EXCEPT ![q] = p]
               /\ Goto(p, "rm_lock_e")
          ELSE /\ Goto(p, "rm_pred_read")
               /\ UNCHANGED mutex
     /\ UNCHANGED <<next, prev, list, Value, l_len, pendingInsertions, closed,
                    nElems, tpc, tlist>>
     /\ UNCHANGED <<cacheVars, reg, op, obsVars>>

\* remove, list.go:116-121: lock e; with validateList and e.list != l return
\* (e, false): p is unlocked by its defer, e.mutex.Unlock() is deferred only
\* after this return and e stays locked
RMLockE(p) ==
  LET e == reg[p].e
      q == reg[p].p
  IN /\ ~panicked
     /\ pc[p] = "rm_lock_e"
     /\ mutex[e] = Unlocked
     /\ IF validateList(p) /\ list[e] # reg[p].l
          THEN /\ mutex' = [mutex EXCEPT ![e] = p, ![q] = Unlocked]
               /\ Goto(p, AfterRemoveFailed(p))
               /\ reg' = [reg EXCEPT ![p].e = IF reg[p].who = "pb" THEN Nil ELSE @]
          ELSE /\ mutex' = [mutex EXCEPT ![e] = p]
               /\ Goto(p, "rm_lock_n")
               /\ UNCHANGED reg
     /\ UNCHANGED <<next, prev, list, Value, l_len, pendingInsertions, closed,
                    nElems, tpc, tlist>>
     /\ UNCHANGED <<cacheVars, op, obsVars>>

\* mutant: remove forgets the lens
RemoveLenKept(e, nl) == l_len

\* mutant: remove debits the old list and does not credit the new one
RemoveLenDebit(e, nl) ==
  IF nl = list[e] THEN l_len
  ELSE [l \in Lists |-> l_len[l] - (IF l = list[e] THEN 1 ELSE 0)]

\* the len bookkeeping of remove, list.go:126-132
RemoveLen(e, nl) ==
  IF nl = list[e] THEN l_len
  ELSE [l \in Lists |-> l_len[l] - (IF l = list[e] THEN 1 ELSE 0)
                                  + (IF l = nl THEN 1 ELSE 0)]

\* remove, list.go:122-139: lock n = e.next, adjust the lens, unlink e,
\* e.list = newList, deferred unlocks, return (e, true)
RMLockN(p) ==
  LET e == reg[p].e
      q == reg[p].p
      n == next[e]
      nl == newListArg(p)
  IN /\ ~panicked
     /\ pc[p] = "rm_lock_n"
     /\ mutex[n] = Unlocked
     /\ l_len' = RemoveLen(e, nl)
     /\ next' = [next EXCEPT ![q] = n, ![e] = Nil]
     /\ prev' = [prev EXCEPT ![n] = q, ![e] = Nil]
     /\ list' = [list EXCEPT ![e] = nl]
     /\ mutex' = [mutex EXCEPT ![q] = Unlocked, ![e] = Unlocked]
     /\ IF reg[p].who = "pb"
          THEN /\ Goto(p, AfterPopBack(p, e))
               /\ popped' = popped \cup {Value[e]}
          ELSE /\ Goto(p, "mtf_sched")
               /\ UNCHANGED popped
     /\ UNCHANGED <<Value, pendingInsertions, closed, nElems, tpc, tlist>>
     /\ UNCHANGED <<cacheVars, reg, op, evictLog, adds, last, nOps, size, ref, panicked>>

\* ----------------------------------------------- list: MoveToFront ----
\* MoveToFront, list.go:170-173: the move removed e; count and start the
\* asynchronous insertFront, return true
MTFSched(p) ==
  LET e == reg[p].e
      l == reg[p].l
  IN /\ ~panicked
     /\ pc[p] = "mtf_sched"
     /\ pendingInsertions' = [pendingInsertions EXCEPT ![l] = @ + 1]
     /\ tpc' = [tpc EXCEPT ![e] = "lock_h"]
     /\ tlist' = [tlist EXCEPT ![e] = l]
     /\ reg' = [reg EXCEPT ![p].ok = TRUE]
     /\ Goto(p, AfterMoveToFront(p))
     /\ UNCHANGED <<next, prev, list, mutex, Value, l_len, closed, nElems>>
     /\ UNCHANGED <<cacheVars, op, obsVars>>

\* mutant: a move that removed nothing reports failure
AlreadyInNever(e, l) == FALSE

\* mutant: a move that removed nothing reports success
AlreadyInAlways(e, l) == TRUE

\* list.go:176: e.list == l
AlreadyIn(e, l) == list[e] = l

\* MoveToFront, list.go:175-176: the move removed nothing; return e.list == l
\* (read without e's mutex)
MTFList(p) ==
  LET e == reg[p].e
      l == reg[p].l
  IN /\ ~panicked
     /\ pc[p] = "mtf_list"
     /\ reg' = [reg EXCEPT ![p].ok = AlreadyIn(e, l)]
     /\ Goto(p, AfterMoveToFront(p))
     /\ UNCHANGED <<listVars, cacheVars, op, obsVars>>

\* ------------------------------------------------------ sync.Cond ----
\* mutant: a wake-up never reaches the worker
SignalLost(pcs) == pcs

\* cleanup.Signal / cleanup.Broadcast: wake the worker if it waits in
\* cleanup.Wait (it is the only waiter); lost otherwise
Signal(pcs) == IF pcs[Worker] = "w_wait" THEN [pcs EXCEPT ![Worker] = "w_woken"] ELSE pcs

\* ------------------------------------------------ LRU: cleanupWorker ----
\* mutant: the worker also evicts from a cache that is exactly full
OverCapacityOrFull(n, cap) == n >= cap

\* mutant: the worker tolerates one entry over capacity
OverCapacityByTwo(n, cap) == n > cap + 1

\* the loop condition of the worker, lru.go:78 and lru.go:109
OverCapacity(n, cap) == n > cap

\* mutant: a failed pop does not give the claimed eviction back
NotRestored(n) == n

\* lru.go:87: atomic.AddInt64(&c.len, 1)
Restored(n) == n + 1

\* mutant: the worker also waits when capacity is 0
StaysOpenAtZero(cap) == cap >= 0

\* lru.go:111: the worker waits while the cache is open, capacity > 0
StaysOpen(cap) == cap > 0

\* mutant: the predicate refuses every removal
RemovePredNever(v, popItem) == FALSE

\* the predicate given to RemoveCb, lru.go:91-97
RemovePred(v, popItem) == v # Nil /\ v = popItem

\* lru.go:71 and 75: lock the cleanup mutex, then unlock it at the top of
\* the loop
WStart ==
  /\ ~panicked
  /\ pc[Worker] = "w_start"
  /\ Goto(Worker, "w_len")
  /\ UNCHANGED <<listVars, cacheVars, reg, op, obsVars>>

\* lru.go:78: n := c.Len(); n > c.capacity
WLen ==
  /\ ~panicked
  /\ pc[Worker] = "w_len"
  /\ reg' = [reg EXCEPT ![Worker].n = len]
  /\ Goto(Worker, IF OverCapacity(len, capacity) THEN "w_cas" ELSE "w_lock")
  /\ UNCHANGED <<listVars, cacheVars, op, obsVars>>

\* lru.go:80-84: claim one eviction by CompareAndSwap(len, n, n-1), then
\* call PopBack
WCas ==
  /\ ~panicked
  /\ pc[Worker] = "w_cas"
  /\ IF len = reg[Worker].n
       THEN /\ len' = len - 1
            /\ reg' = [reg EXCEPT ![Worker].l = Evict]
            /\ Goto(Worker, "pb_pred_read")
       ELSE /\ Goto(Worker, "w_len")
            /\ UNCHANGED <<len, reg>>
  /\ UNCHANGED <<listVars, capacity, items, item, nItems, workers, op, obsVars>>

\* lru.go:85-87: the pop failed, give the claimed eviction back
WRestore ==
  /\ ~panicked
  /\ pc[Worker] = "w_restore"
  /\ len' = Restored(len)
  /\ Goto(Worker, "w_len")
  /\ UNCHANGED <<listVars, capacity, items, item, nItems, workers, reg, op, obsVars>>

\* lru.go:89-97: popItem := popElement.Value.(*item); RemoveCb deletes the
\* map entry of popItem.key iff it is popItem
WRemoveCb ==
  LET e == reg[Worker].e
      popItem == Value[e]
  IN /\ ~panicked
     /\ pc[Worker] = "w_removecb"
     /\ IF popItem = Nil
          THEN \* type assertion on a nil interface
               /\ Panic(Worker)
               /\ UNCHANGED <<items, reg>>
          ELSE /\ items' = IF RemovePred(items[item[popItem].key], popItem)
                             THEN [items EXCEPT ![item[popItem].key] = Nil]
                             ELSE items
               /\ reg' = [reg EXCEPT ![Worker].it = popItem]
               /\ Goto(Worker, "w_onevict")
               /\ UNCHANGED panicked
     /\ UNCHANGED <<listVars, capacity, len, item, nItems, workers, op,
                    evictLog, adds, last, nOps, popped, size, ref>>

\* lru.go:98-102: c.onEvict(popItem.key, popItem.value), then
\* popElement.Value = nil and popItem.evictElement = nil
WOnEvict ==
  LET popItem == reg[Worker].it
  IN /\ ~panicked
     /\ pc[Worker] = "w_onevict"
     /\ evictLog' = Append(evictLog, [it |-> popItem, key |-> item[popItem].key,
                                      value |-> item[popItem].value])
     /\ Value' = [Value EXCEPT ![reg[Worker].e] = Nil]
     /\ item' = [item EXCEPT ![popItem].evictElement = Nil]
     /\ Goto(Worker, "w_len")
     /\ UNCHANGED <<next, prev, list, mutex, l_len, pendingInsertions, closed,
                    nElems, tpc, tlist>>
     /\ UNCHANGED <<capacity, len, items, nItems, workers, reg, op>>
     /\ UNCHANGED <<adds, last, nOps, popped, size, ref, panicked>>

\* lru.go:108-117: the final check under the cleanup mutex: carry on (the
\* mutex is released at lru.go:75), wait on the condition variable (Wait
\* releases the mutex), or return (deferred Unlock and workers.Done)
WFinal ==
  /\ ~panicked
  /\ pc[Worker] = "w_lock"
  /\ IF OverCapacity(len, capacity)
       THEN Goto(Worker, "w_len") /\ UNCHANGED workers
       ELSE IF StaysOpen(capacity)
              THEN Goto(Worker, "w_wait") /\ UNCHANGED workers
              ELSE Goto(Worker, "w_done") /\ workers' = workers - 1
  /\ UNCHANGED <<listVars, capacity, len, items, item, nItems, reg, op, obsVars>>

\* lru.go:113 and 75: woken, Wait locks the cleanup mutex again and the loop
\* unlocks it
WWoken ==
  /\ ~panicked
  /\ pc[Worker] = "w_woken"
  /\ Goto(Worker, "w_len")
  /\ UNCHANGED <<listVars, cacheVars, reg, op, obsVars>>

\* ------------------------------------------------- client threads ----
\* the call a thread is running: its name and arguments, for a Get the
\* entry stored by the Add of the same key made just before it (after), and
\* the entry the map held for the key when the call looked it up (found)
NoOp == [name |-> "none", key |-> Nil, val |-> Nil, after |-> Nil, found |-> Nil]

Return(t, call) ==
  /\ last' = [last EXCEPT ![t] = call]
  /\ adds' = IF call.name = "Add"
               THEN [adds EXCEPT ![t] = Append(@, [it |-> call.it, ok |-> call.ok])]
               ELSE adds
  /\ op' = [op EXCEPT ![t] = NoOp]

\* the entry stored by the Add of key k that thread t made just before
JustAdded(t, k) ==
  IF last[t].name = "Add" /\ last[t].key = k THEN last[t].it ELSE Nil

\* no Close has been called and the thread may issue one more operation
Open == \A u \in Threads : pc[u] \notin {"close_list", "close_wait", "closed"}
CanIssue(t) ==
  ~panicked /\ t \in Callers /\ pc[t] = "idle" /\ Open /\ nOps[t] < MaxOps

\* the keys a call is issued with.  The cache treats keys alike (they are
\* only hashed and compared), so of the keys no call has named yet the
\* smallest stands for all.
Named == {item[i].key : i \in 1..nItems}
KeysToTry == {k \in Keys : k = 1 \/ (k - 1) \in Named}

\* the type assertion valueInMap.(item) of the Upsert callback, lru.go:134:
\* the map holds *item (lru.go:139, 149), so the assertion panics whenever
\* the key exists
UpsertPanics(exist) == exist

\* mutant: the result of Add compares with >=
EvictsAtCapacity(n, cap) == n >= cap

\* the result of Add, lru.go:157
Evicts(n, cap) == n > cap

\* ---------------------------------------------------------- LRU: Add ----
\* the value a call of Add stores: the cache never inspects values, so each
\* Add of a thread brings a value of its own
NewValue(t) == nOps[t] + 1

\* lru.go:129-150: Upsert runs the callback under the shard lock and stores
\* what it returns
AddUpsert(t) ==
  \E k \in KeysToTry, v \in {NewValue(t)} :
    /\ CanIssue(t)
    /\ op' = [op EXCEPT ![t] = [name |-> "Add", key |-> k, val |-> v, after |-> Nil,
                                found |-> items[k]]]
    /\ nOps' = [nOps EXCEPT ![t] = @ + 1]
    /\ IF UpsertPanics(items[k] # Nil)
         THEN /\ Panic(t)
              /\ UNCHANGED <<items, item, nItems, reg>>
         ELSE /\ nItems' = nItems + 1
              /\ item' = [item EXCEPT ![nItems + 1] =
                            [key |-> k, value |-> v, evictElement |-> Nil]]
              /\ items' = [items EXCEPT ![k] = nItems + 1]
              /\ reg' = [reg EXCEPT ![t].it = nItems + 1]
              /\ Goto(t, "add_count")
              /\ UNCHANGED panicked
    /\ UNCHANGED <<listVars, capacity, len, workers, evictLog, adds, last,
                   popped, size, ref>>

\* lru.go:151-155: a stored entry without an element is new: count it under
\* the cleanup mutex; otherwise return false (lru.go:164)
AddCount(t) ==
  /\ ~panicked
  /\ pc[t] = "add_count"
  /\ IF item[reg[t].it].evictElement = Nil
       THEN /\ len' = len + 1
            /\ reg' = [reg EXCEPT ![t].n = len + 1, ![t].l = Evict]
            /\ Goto(t, "pf_len")
            /\ UNCHANGED <<adds, last, op>>
       ELSE /\ Return(t, Call("Add", op[t].key, op[t].val, FALSE, Nil, reg[t].it, Nil))
            /\ Goto(t, "idle")
            /\ UNCHANGED <<len, reg>>
  /\ UNCHANGED <<listVars, capacity, items, item, nItems, workers,
                 evictLog, nOps, popped, size, ref, panicked>>

\* PushFront, list.go:158-159: e := &element{Value: v}; l.len += 1
PFLen(t) ==
  LET e == nElems + 1
      l == reg[t].l
  IN /\ ~panicked
     /\ pc[t] = "pf_len"
     /\ nElems' = e
     /\ Value' = [Value EXCEPT ![e] = reg[t].it]
     /\ l_len' = [l_len EXCEPT ![l] = @ + 1]
     /\ reg' = [reg EXCEPT ![t].e = e]
     /\ Goto(t, "pf_sched")
     /\ UNCHANGED <<next, prev, list, mutex, pendingInsertions, closed, tpc, tlist>>
     /\ UNCHANGED <<cacheVars, op, obsVars>>

\* PushFront, list.go:160-162: pendingInsertions += 1; go l.insertFront(e)
PFSched(t) ==
  LET e == reg[t].e
      l == reg[t].l
  IN /\ ~panicked
     /\ pc[t] = "pf_sched"
     /\ pendingInsertions' = [pendingInsertions EXCEPT ![l] = @ + 1]
     /\ tpc' = [tpc EXCEPT ![e] = "lock_h"]
     /\ tlist' = [tlist EXCEPT ![e] = l]
     /\ Goto(t, AfterPushFront(t))
     /\ UNCHANGED <<next, prev, list, mutex, Value, l_len, closed, nElems>>
     /\ UNCHANGED <<cacheVars, reg, op, obsVars>>

\* lru.go:156: v.evictElement = (the element PushFront returned)
AddAssign(t) ==
  /\ ~panicked
  /\ pc[t] = "add_assign"
  /\ item' = [item EXCEPT ![reg[t].it].evictElement = reg[t].e]
  /\ Goto(t, "add_signal")
  /\ UNCHANGED <<listVars, capacity, len, items, nItems, workers, reg, op,
                 obsVars>>

\* lru.go:157-164: over capacity: Signal and return true, else return false
AddSignal(t) ==
  LET ev == Evicts(reg[t].n, capacity)
  IN /\ ~panicked
     /\ pc[t] = "add_signal"
     /\ pc' = IF ev THEN Signal([pc EXCEPT ![t] = "idle"]) ELSE [pc EXCEPT ![t] = "idle"]
     /\ Return(t, Call("Add", op[t].key, op[t].val, ev, Nil, reg[t].it, Nil))
     /\ UNCHANGED <<listVars, cacheVars, reg, evictLog, nOps, popped, size, ref, panicked>>

\* ---------------------------------------------------------- LRU: Get ----
\* lru.go:172-174: the map lookup; a miss returns (nil, false)
GetLookup(t) ==
  \E k \in KeysToTry :
    /\ CanIssue(t)
    /\ nOps' = [nOps EXCEPT ![t] = @ + 1]
    /\ IF items[k] = Nil
         THEN /\ Return(t, Call("Get", k, Nil, FALSE, Nil, Nil, JustAdded(t, k)))
              /\ UNCHANGED <<pc, reg>>
         ELSE /\ op' = [op EXCEPT ![t] = [name |-> "Get", key |-> k, val |-> Nil,
                                         after |-> JustAdded(t, k),
                                         found |-> items[k]]]
              /\ reg' = [reg EXCEPT ![t].it = items[k]]
              /\ Goto(t, "get_mtf")
              /\ UNCHANGED <<adds, last>>
    /\ UNCHANGED <<listVars, cacheVars, evictLog, popped, size, ref, panicked>>

\* lru.go:175: c.evict.MoveToFront(mapItem.evictElement); MoveToFront
\* (list.go:168-169) calls remove, remove calls predecessor, which locks
\* e.mutex: a nil element is a nil dereference
GetMoveToFront(t) ==
  LET e == item[reg[t].it].evictElement
  IN /\ ~panicked
     /\ pc[t] = "get_mtf"
     /\ IF e = Nil
          THEN /\ Panic(t)
               /\ UNCHANGED reg
          ELSE /\ reg' = [reg EXCEPT ![t].e = e, ![t].who = "mtf", ![t].l = Evict]
               /\ Goto(t, "rm_pred_read")
               /\ UNCHANGED panicked
     /\ UNCHANGED <<listVars, cacheVars, op, evictLog, adds, last, nOps, popped, size, ref>>

\* lru.go:175-180: (mapItem.value, true) if the move succeeded, else
\* (nil, false)
GetReturn(t) ==
  /\ ~panicked
  /\ pc[t] = "get_ret"
  /\ Return(t, Call("Get", op[t].key, Nil, reg[t].ok,
                    IF reg[t].ok THEN item[reg[t].it].value ELSE Nil, reg[t].it,
                    op[t].after))
  /\ Goto(t, "idle")
  /\ UNCHANGED <<listVars, cacheVars, reg, evictLog, nOps, popped, size, ref, panicked>>

\* --------------------------------------------------------- LRU: Peek ----
\* what Peek returns in the current state, lru.go:194-203
PeekOf(k) == IF items[k] # Nil THEN <<item[items[k]].value, TRUE>> ELSE <<Nil, FALSE>>

\* mutant: Peek written as Get is, moving the entry to the front on a hit
PeekAsGet(t) ==
  \E k \in KeysToTry :
    /\ CanIssue(t)
    /\ nOps' = [nOps EXCEPT ![t] = @ + 1]
    /\ IF items[k] = Nil
         THEN /\ Return(t, Call("Peek", k, Nil, FALSE, Nil, Nil, JustAdded(t, k)))
              /\ UNCHANGED <<pc, reg>>
         ELSE /\ op' = [op EXCEPT ![t] = [name |-> "Peek", key |-> k, val |-> Nil,
                                         after |-> JustAdded(t, k),
                                         found |-> items[k]]]
              /\ reg' = [reg EXCEPT ![t].it = items[k]]
              /\ Goto(t, "get_mtf")
              /\ UNCHANGED <<adds, last>>
    /\ UNCHANGED <<listVars, cacheVars, evictLog, popped, size, ref, panicked>>

\* Peek, lru.go:194-203: one map lookup (under the shard's read lock)
Peek(t) ==
  \E k \in KeysToTry :
    /\ CanIssue(t)
    /\ nOps' = [nOps EXCEPT ![t] = @ + 1]
    /\ Return(t, Call("Peek", k, Nil, PeekOf(k)[2], PeekOf(k)[1], items[k],
                      JustAdded(t, k)))
    /\ UNCHANGED <<listVars, cacheVars, pc, reg, evictLog, popped, size, ref, panicked>>

\* Contains, lru.go:184-191: one map lookup
Contains(t) ==
  \E k \in KeysToTry :
    /\ CanIssue(t)
    /\ nOps' = [nOps EXCEPT ![t] = @ + 1]
    /\ Return(t, Call("Contains", k, Nil, items[k] # Nil, Nil, Nil, Nil))
    /\ UNCHANGED <<listVars, cacheVars, pc, reg, evictLog, popped, size, ref, panicked>>

\* -------------------------------------------------------- LRU: Close ----
\* lru.go:58-61: under the cleanup mutex, capacity = 0 and Broadcast.
\* Close is called once, when no other call is running.
CloseBroadcast(t) ==
  /\ ~panicked
  /\ t \in Callers
  /\ Open
  /\ \A u \in Threads : pc[u] = "idle"
  /\ capacity' = 0
  /\ pc[t] = "idle"
  /\ op' = [op EXCEPT ![t] = [name |-> "Close", key |-> Nil, val |-> Nil, after |-> Nil,
                              found |-> Nil]]
  /\ pc' = Signal([pc EXCEPT ![t] = "close_list"])
  /\ UNCHANGED <<listVars, len, items, item, nItems, workers, reg>>
  /\ UNCHANGED <<evictLog, adds, last, nOps, popped, size, ref, panicked>>

\* lru.go:63: c.evict.Close().  The list refuses further scheduling once
\* closed and polls pendingInsertions until every scheduled insertion has
\* finished; no call is issued after Close, so nothing is scheduled while it
\* polls and the two are one step.
ListClose(t) ==
  /\ ~panicked
  /\ pc[t] = "close_list"
  /\ pendingInsertions[Evict] = 0
  /\ closed' = [closed EXCEPT ![Evict] = TRUE]
  /\ Goto(t, "close_wait")
  /\ UNCHANGED <<next, prev, list, mutex, Value, l_len, pendingInsertions, nElems,
                 tpc, tlist>>
  /\ UNCHANGED <<cacheVars, reg, op, obsVars>>

\* lru.go:66: c.workers.Wait()
CloseWait(t) ==
  /\ ~panicked
  /\ pc[t] = "close_wait"
  /\ workers = 0
  /\ Return(t, Call("Close", Nil, Nil, TRUE, Nil, Nil, Nil))
  /\ Goto(t, "closed")
  /\ UNCHANGED <<listVars, cacheVars, reg, evictLog, nOps, popped, size, ref, panicked>>

\* -------------------------------------------------- specification ----
Next ==
  \/ \E e \in Elems : IFLockH(e)
  \/ \E e \in Elems : IFLockE(e)
  \/ \E e \in Elems : IFLink(e)
  \/ \E p \in Procs : PBPredRead(p)
  \/ \E p \in Procs : PBPredLock(p)
  \/ \E p \in Procs : RMPredRead(p)
  \/ \E p \in Procs : RMPredLock(p)
  \/ \E p \in Procs : RMLockE(p)
  \/ \E p \in Procs : RMLockN(p)
  \/ \E p \in Procs : MTFSched(p)
  \/ \E p \in Procs : MTFList(p)
  \/ WStart
  \/ WLen
  \/ WCas
  \/ WRestore
  \/ WRemoveCb
  \/ WOnEvict
  \/ WFinal
  \/ WWoken
  \/ \E t \in Threads : AddUpsert(t)
  \/ \E t \in Threads : AddCount(t)
  \/ \E t \in Threads : PFLen(t)
  \/ \E t \in Threads : PFSched(t)
  \/ \E t \in Threads : AddAssign(t)
  \/ \E t \in Threads : AddSignal(t)
  \/ \E t \in Threads : GetLookup(t)
  \/ \E t \in Threads : GetMoveToFront(t)
  \/ \E t \in Threads : GetReturn(t)
  \/ \E t \in Threads : Peek(t)
  \/ \E t \in Threads : Contains(t)
  \/ \E t \in Threads : CloseBroadcast(t)
  \/ \E t \in Threads : ListClose(t)
  \/ \E t \in Threads : CloseWait(t)

Spec == Init /\ [][Next]_vars

\* ------------------------------------------------------- fairness ----
\* the steps of the list functions, run by whoever called them
ListStep(p) ==
  \/ PBPredRead(p) \/ PBPredLock(p)
  \/ RMPredRead(p) \/ RMPredLock(p) \/ RMLockE(p) \/ RMLockN(p)
  \/ MTFSched(p) \/ MTFList(p)

WorkerStep ==
  \/ WStart \/ WLen \/ WCas \/ WRestore \/ WRemoveCb \/ WOnEvict
  \/ WFinal \/ WWoken
  \/ ListStep(Worker)

TaskStep(e) == IFLockH(e) \/ IFLockE(e) \/ IFLink(e)

\* the steps of a call that has been started (a thread need not start one)
ThreadRun(t) ==
  \/ AddCount(t) \/ PFLen(t) \/ PFSched(t) \/ AddAssign(t) \/ AddSignal(t)
  \/ GetMoveToFront(t) \/ GetReturn(t)
  \/ ListClose(t) \/ CloseWait(t)
  \/ ListStep(t)

\* Goroutines are scheduled fairly, and a goroutine waiting for a sync.Mutex
\* gets it in the end (the mutex hands over to a starving waiter), so a step
\* that is enabled again and again is taken.
Fairness ==
  /\ SF_vars(WorkerStep)
  /\ \A e \in 1..MaxElems : SF_vars(TaskStep(e))
  /\ \A t \in Callers : SF_vars(ThreadRun(t))

LiveSpec == Init /\ [][Next]_vars /\ Fairness

\* --------------------------------------- the LRU list used directly ----
\* TestList and TestMove (part_001:94-205) call PushFront, MoveToFront and
\* PopBack of lists made by newList; no cache and no worker exist.
MaxListOps == 4      \* calls of the lists the client threads make together

NoCache ==
  /\ size = 1
  /\ capacity = 1
  /\ len = 0
  /\ items = [k \in Keys |-> Nil]
  /\ item = [i \in ItemIds |-> [key |-> Nil, value |-> Nil, evictElement |-> Nil]]
  /\ nItems = 0
  /\ workers = 0

ListInit ==
  /\ newList
  /\ NoCache
  /\ pc = [p \in Procs |-> IF p = Worker THEN "w_done" ELSE "idle"]
  /\ reg = [p \in Procs |-> NoReg]
  /\ op = [t \in Threads |-> NoOp]
  /\ evictLog = << >>
  /\ adds = [t \in Threads |-> << >>]
  /\ last = [t \in Threads |-> NoCall]
  /\ nOps = [t \in Threads |-> 0]
  /\ popped = {}
  /\ panicked = FALSE
  /\ ref = [NoRef EXCEPT !.following = TRUE]

ListIssued == nOps[1] + nOps[2]
\* The threads run the same code and the lists are made alike, so the first
\* call of all is made by thread 1 on the list Evict.
ListCanIssue(t) ==
  /\ ~panicked
  /\ pc[t] = "idle"
  /\ ListIssued < MaxListOps
  /\ ListIssued = 0 => t = 1
ListsToTry == IF ListIssued = 0 THEN {Evict} ELSE Lists

\* the elements a caller can name: those a call of PushFront has returned
Known ==
  {e \in 1..nElems :
     \A u \in Threads : ~(pc[u] \in {"pf_sched", "l_ret"} /\ op[u].name = "PushFront"
                            /\ reg[u].e = e)}

\* waitForInsertions (part_001:86-92) has returned and no call is running
ListQuiescent ==
  /\ \A t \in Threads : pc[t] = "idle"
  /\ \A l \in Lists : pendingInsertions[l] = 0

\* the reference model: PushFront puts the new node first, MoveToFront makes
\* a node of some list the first of l, PopBack takes the last node
Without(sq, e) == SelectSeq(sq, LAMBDA x : x # e)
Holder(e) == {l \in Lists : \E i \in 1..Len(ref.s[l]) : ref.s[l][i] = e}
RefPushFront(l, e) ==
  [ref EXCEPT !.s[l] = <<e>> \o @, !.e = e, !.ret = Nil, !.flag = FALSE,
              !.from = Nil, !.rep = FALSE]
RefMoveToFront(l, e) ==
  IF Holder(e) = {}
    THEN [ref EXCEPT !.e = e, !.ret = Nil, !.flag = FALSE, !.from = Nil, !.rep = FALSE]
    ELSE [ref EXCEPT !.s = [m \in Lists |-> IF m = l THEN <<e>> \o Without(ref.s[m], e)
                                                    ELSE Without(ref.s[m], e)],
                     !.e = e, !.ret = Nil, !.flag = TRUE,
                     !.from = CHOOSE m \in Holder(e) : TRUE, !.rep = FALSE]
RefPopBack(l) ==
  IF ref.s[l] = << >>
    THEN [ref EXCEPT !.e = Nil, !.ret = Nil, !.flag = FALSE, !.from = Nil, !.rep = FALSE]
    ELSE [ref EXCEPT !.s[l] = SubSeq(@, 1, Len(@) - 1), !.e = Nil,
                     !.ret = ref.s[l][Len(ref.s[l])], !.flag = FALSE, !.from = Nil,
                     !.rep = FALSE]

\* the caller and the list of the call
CalledBy(r, t, l) == [r EXCEPT !.by = t, !.to = l]

\* thread t repeats the MoveToFront(e) on l, the list of e, that it made as
\* the last call of all, without a wait for the insertion that call scheduled
Repeats(t, l, e) ==
  /\ ref.following
  /\ \A u \in Threads : pc[u] = "idle"
  /\ last[t].name = "MoveToFront"
  /\ ref.by = t /\ ref.to = l /\ ref.e = e /\ ref.from = l /\ ref.flag
  /\ \A x \in Elems : tpc[x] # "none" => x = e

\* l.PushFront(v), list.go:157: the call
LPushFront(t) ==
  \E l \in ListsToTry :
    /\ ListCanIssue(t)
    /\ nElems + Cardinality({u \in Threads : pc[u] = "pf_len"}) < MaxElems
    /\ nOps' = [nOps EXCEPT ![t] = @ + 1]
    /\ op' = [op EXCEPT ![t] = [name |-> "PushFront", key |-> l, val |-> NewValue(t),
                                after |-> Nil, found |-> Nil]]
    /\ reg' = [reg EXCEPT ![t].l = l, ![t].it = NewValue(t)]
    /\ Goto(t, "pf_len")
    /\ ref' = IF ref.following /\ ListQuiescent THEN CalledBy(RefPushFront(l, nElems + 1), t, l)
              ELSE NoRef
    /\ UNCHANGED <<listVars, cacheVars, evictLog, adds, last, popped, size, panicked>>

\* l.MoveToFront(e), list.go:168: the call
LMoveToFront(t) ==
  \E l \in Lists, e \in Known :
    /\ ListCanIssue(t)
    /\ nOps' = [nOps EXCEPT ![t] = @ + 1]
    /\ op' = [op EXCEPT ![t] = [name |-> "MoveToFront", key |-> l, val |-> e,
                                after |-> Nil, found |-> Nil]]
    /\ reg' = [reg EXCEPT ![t].l = l, ![t].e = e, ![t].who = "mtf"]
    /\ Goto(t, "rm_pred_read")
    /\ ref' = IF ref.following /\ ListQuiescent THEN CalledBy(RefMoveToFront(l, e), t, l)
              ELSE IF Repeats(t, l, e) THEN [ref EXCEPT !.rep = TRUE]
              ELSE NoRef
    /\ UNCHANGED <<listVars, cacheVars, evictLog, adds, last, popped, size, panicked>>

\* l.PopBack(), list.go:144: the call
LPopBack(t) ==
  \E l \in ListsToTry :
    /\ ListCanIssue(t)
    /\ nOps' = [nOps EXCEPT ![t] = @ + 1]
    /\ op' = [op EXCEPT ![t] = [name |-> "PopBack", key |-> l, val |-> Nil,
                                after |-> Nil, found |-> Nil]]
    /\ reg' = [reg EXCEPT ![t].l = l]
    /\ Goto(t, "pb_pred_read")
    /\ ref' = IF ref.following /\ ListQuiescent THEN CalledBy(RefPopBack(l), t, l) ELSE NoRef
    /\ UNCHANGED <<listVars, cacheVars, evictLog, adds, last, popped, size, panicked>>

\* the call returns: the element of PushFront (list.go:162) and of PopBack
\* (list.go:148-153), the flag of MoveToFront (list.go:173, 176)
LReturn(t) ==
  /\ ~panicked
  /\ pc[t] = "l_ret"
  /\ Return(t, Call(op[t].name, op[t].key, Nil,
                    IF op[t].name = "MoveToFront" THEN reg[t].ok ELSE reg[t].e # Nil,
                    reg[t].e, Nil, Nil))
  /\ reg' = [reg EXCEPT ![t] = NoReg]
  /\ Goto(t, "idle")
  /\ UNCHANGED <<listVars, cacheVars, evictLog, nOps, popped, size, ref, panicked>>

ListNext ==
  \/ \E e \in Elems : IFLockH(e)
  \/ \E e \in Elems : IFLockE(e)
  \/ \E e \in Elems : IFLink(e)
  \/ \E t \in Threads : PBPredRead(t)
  \/ \E t \in Threads : PBPredLock(t)
  \/ \E t \in Threads : RMPredRead(t)
  \/ \E t \in Threads : RMPredLock(t)
  \/ \E t \in Threads : RMLockE(t)
  \/ \E t \in Threads : RMLockN(t)
  \/ \E t \in Threads : MTFSched(t)
  \/ \E t \in Threads : MTFList(t)
  \/ \E t \in Threads : PFLen(t)
  \/ \E t \in Threads : PFSched(t)
  \/ \E t \in Threads : LPushFront(t)
  \/ \E t \in Threads : LMoveToFront(t)
  \/ \E t \in Threads : LPopBack(t)
  \/ \E t \in Threads : LReturn(t)

ListSpec == ListInit /\ [][ListNext]_vars

\* ----------------------------------------------- state functions ----
\* the nodes of list l from head.next along next to the tail
RECURSIVE WalkFrom(_, _, _)
WalkFrom(x, l, fuel) ==
  IF x = TailOf(l) \/ x = Nil \/ fuel = 0 THEN << >>
  ELSE <<x>> \o WalkFrom(next[x], l, fuel - 1)
ListSeq(l) == WalkFrom(next[HeadOf(l)], l, Cardinality(Elems) + 1)

Resident == {k \in Keys : items[k] # Nil}
AllIdle == \A t \in Threads : pc[t] = "idle"
NoTask == \A e \in Elems : tpc[e] = "none"
\* all calls returned, no insertion pending, the worker waiting
Quiescent == ~panicked /\ AllIdle /\ NoTask /\ pc[Worker] = "w_wait"

KeyOf(a) == item[a.it].key
DistinctKeys(t) ==
  \A i, j \in 1..Len(adds[t]) : i # j => KeyOf(adds[t][i]) # KeyOf(adds[t][j])
OnlyCaller(t) == \A u \in Threads \ {t} : adds[u] = << >> /\ op[u].name # "Add"
Evictions(i) == Cardinality({n \in 1..Len(evictLog) : evictLog[n].it = i})

\* ------------------------------------------- the general list ----
\* List of package concurrent (src/list.go): a doubly linked list between
\* two sentinels, every element with a sync.RWMutex of its own.  The threads
\* call it on the list numbered Evict or on the list numbered Other; no
\* cache, no worker and no asynchronous insertion exist.  A section under a
\* read lock blocks nowhere and is one step, guarded by no writer holding
\* the mutex; every write lock taken is a step of its own, and the section
\* after the last lock a function takes runs to its deferred unlocks in
\* that step.
MaxFill == 2         \* elements PushBack put in the list before the threads start
MaxCalls == 2        \* calls the client threads make, at once or one after the other
MaxAlone == 1        \* calls made after those, each with no other call running

\* the value a caller gives the element numbered e
ValueOf(e) == MaxElems + e

\* the successor and the predecessor of node x in list l holding sq
PosIn(sq, x) == CHOOSE i \in 1..Len(sq) : sq[i] = x
NextIn(sq, l, x) ==
  IF x = HeadOf(l) THEN (IF Len(sq) = 0 THEN TailOf(l) ELSE sq[1])
  ELSE IF PosIn(sq, x) = Len(sq) THEN TailOf(l) ELSE sq[PosIn(sq, x) + 1]
PrevIn(sq, l, x) ==
  IF x = TailOf(l) THEN (IF Len(sq) = 0 THEN HeadOf(l) ELSE sq[Len(sq)])
  ELSE IF PosIn(sq, x) = 1 THEN HeadOf(l) ELSE sq[PosIn(sq, x) - 1]
ListOfNode(x) == IF x \in Elems THEN Nil ELSE IF x > 0 - 10 THEN 0 - x ELSE 0 - 10 - x

\* New (list.go:106-109) made both lists and PushBack (list.go:341) was
\* called n times on the first and m times on the second, one call after
\* the other
PushedBack(n, m) ==
  LET sq == [l \in Lists |-> IF l = Evict THEN [i \in 1..n |-> i]
                                           ELSE [i \in 1..m |-> n + i]]
      home(x) == IF x \in 1..n THEN Evict ELSE IF x \in (n + 1)..(n + m) THEN Other
               ELSE ListOfNode(x)
  IN
  /\ next = [x \in Nodes |-> IF home(x) = Nil \/ x = TailOf(home(x)) THEN Nil
                             ELSE NextIn(sq[home(x)], home(x), x)]
  /\ prev = [x \in Nodes |-> IF home(x) = Nil \/ x = HeadOf(home(x)) THEN Nil
                             ELSE PrevIn(sq[home(x)], home(x), x)]
  /\ list = [x \in Nodes |-> home(x)]
  /\ mutex = [x \in Nodes |-> Unlocked]
  /\ Value = [x \in Elems |-> IF x <= n + m THEN ValueOf(x) ELSE Nil]
  /\ l_len = [l \in Lists |-> Len(sq[l])]
  /\ nElems = n + m
  /\ pendingInsertions = [l \in Lists |-> 0]
  /\ closed = [l \in Lists |-> FALSE]
  /\ tpc = [e \in Elems |-> "none"]
  /\ tlist = [e \in Elems |-> Nil]

GenInit ==
  /\ \E n \in 0..MaxFill, m \in 0..1 : n + m < MaxElems /\ PushedBack(n, m)
  /\ NoCache
  /\ pc = [p \in Procs |-> IF p = Worker THEN "w_done" ELSE "idle"]
  /\ reg = [p \in Procs |-> NoReg]
  /\ op = [t \in Threads |-> NoOp]
  /\ evictLog = << >>
  /\ adds = [t \in Threads |-> << >>]
  /\ last = [t \in Threads |-> NoCall]
  /\ nOps = [t \in Threads |-> 0]
  /\ popped = {}
  /\ panicked = FALSE
  /\ ref = NoRef

\* what no function of the general list touches
genFrame == <<pendingInsertions, closed, tpc, tlist, cacheVars, evictLog, adds,
              popped, size>>

\* the functions that make an element, those that go through insertBefore,
\* the moves, and the functions that insert a copy of a list
Inserts == {"PushFront", "PushBack", "InsertBefore", "InsertAfter"}
Befores == {"PushBack", "InsertBefore", "MoveToBack", "MoveBefore", "PushBackList"}
Moves == {"MoveToFront", "MoveToBack", "MoveBefore", "MoveAfter"}
Copies == {"PushBackList", "PushFrontList"}

\* The threads run the same code, so the first call of all is made by
\* thread 1.  PushBackList and PushFrontList are not made for lists that are
\* modified meanwhile (list.go:401), so no call is made while one of them
\* runs.
CanCall(t) ==
  /\ ~panicked
  /\ pc[t] = "idle"
  /\ \A u \in Threads : op[u].name \notin Copies
  /\ nOps[1] + nOps[2] < (IF AllIdle THEN MaxCalls + MaxAlone ELSE MaxCalls)
  /\ nOps[1] + nOps[2] = 0 => t = 1

At(t, label) == ~panicked /\ pc[t] = label

\* the elements a caller can name: those an insertion has linked
Elements == 1..nElems

\* the lists as they are when a call is made with no other call running:
\* their nodes in order, their counters and every element's list; a call
\* made while another is running is counted
Snapshot(t, l) ==
  IF AllIdle
    THEN [NoRef EXCEPT !.following = TRUE, !.s = [m \in Lists |-> ListSeq(m)],
                       !.by = t, !.to = l, !.len = l_len,
                       !.list = [x \in Elems |-> list[x]], !.calls = 1]
    ELSE [ref EXCEPT !.following = FALSE, !.calls = @ + 1]

\* thread t makes a call on list l
Called(t, l) ==
  /\ CanCall(t)
  /\ nOps' = [nOps EXCEPT ![t] = @ + 1]
  /\ ref' = Snapshot(t, l)

\* the call thread t is running: its name, its list, its element and its mark
Running(t, name, l, e, mark) ==
  op' = [op EXCEPT ![t] = [name |-> name, key |-> l, val |-> e, after |-> mark,
                           found |-> Nil]]

\* the calls that returned since no call was running last
Cleared == IF AllIdle THEN [u \in Threads |-> NoCall] ELSE last

\* the call returns: whether it did its work and what it hands back
Returns(t, name, l, e, mark, ok, out) ==
  /\ last' = [Cleared EXCEPT ![t] = Call(name, l, e, ok, out, mark, Nil)]
  /\ op' = [op EXCEPT ![t] = NoOp]
  /\ reg' = [reg EXCEPT ![t] = NoReg]
  /\ pc' = [pc EXCEPT ![t] = "idle"]
GReturn(t, ok, out) ==
  Returns(t, op[t].name, op[t].key, op[t].val, op[t].after, ok, out)

\* the element a function inserts: the one a move took out, or a fresh one,
\* which no other thread can name before it is linked and gets its number
\* then
First(t) == IF reg[t].e = Nil THEN nElems + 1 ELSE reg[t].e
IsNew(t) == reg[t].e = Nil
\* the range [first, last] a function inserts (list.go:149, 211): the copies
\* made by copyListElements, linked to one another in a list of their own,
\* or one element; nAdded is its length (list.go:150-154, 212-216)
Made(t) == IF op[t].name \in Copies THEN Len(reg[t].tmp) ELSE 1
Last(t) == IF IsNew(t) THEN nElems + Made(t) ELSE reg[t].e
ValueInReversed(t, e) ==
  IF op[t].name \in Copies THEN reg[t].tmp[Len(reg[t].tmp) + 1 - (e - nElems)]
                          ELSE ValueOf(e)
ValueIn(t, e) == IF op[t].name \in Copies THEN reg[t].tmp[e - nElems] ELSE ValueOf(e)

\* predecessor(x), list.go:189-206, is called by remove(e) with x = e and by
\* insertBefore(first, first, at) with x = at
Target(t) == IF reg[t].who = "remove" THEN reg[t].e ELSE reg[t].at

\* the node whose mutex thread t asks for in its next step (a fresh element
\* is locked by nobody else, so its mutex is no node's here)
Wanted(t) ==
  CASE pc[t] = "lazy_head" -> HeadOf(reg[t].l)      \* list.go:78
    [] pc[t] = "lazy_tail" -> TailOf(reg[t].l)      \* list.go:80
    [] pc[t] = "ia_at" -> reg[t].at                 \* list.go:157
    [] pc[t] = "ia_first" -> reg[t].e               \* list.go:159
    [] pc[t] = "ia_n" -> reg[t].n                   \* list.go:170
    [] pc[t] = "pred_read" -> Target(t)             \* list.go:190, 201
    [] pc[t] = "pred_lock" -> reg[t].p              \* list.go:195
    [] pc[t] = "ib_first" -> reg[t].e               \* list.go:225
    [] pc[t] = "ib_at" -> reg[t].at                 \* list.go:231
    [] pc[t] = "rm_e" -> reg[t].e                   \* list.go:256
    [] pc[t] = "rm_n" -> reg[t].n                   \* list.go:259
    [] pc[t] = "mv_check" -> reg[t].at              \* list.go:277, 303
    [] pc[t] = "front_lock" -> HeadOf(reg[t].l)     \* list.go:121
    [] pc[t] = "back_lock" -> TailOf(reg[t].l)      \* list.go:136
    [] pc[t] \in {"el_next", "el_prev"} -> reg[t].e \* list.go:35, 46
    [] pc[t] = "copy_front" -> HeadOf(op[t].val)    \* list.go:403, 121
    [] pc[t] = "copy_next" -> reg[t].n              \* list.go:403, 35
    [] OTHER -> Nil

\* Lock and RLock return when no thread holds the mutex for writing (read
\* locks are held within one step only)
CanLock(t) == IF Wanted(t) = Nil THEN TRUE ELSE mutex[Wanted(t)] = Unlocked

\* ---- lazyInit(false), list.go:68-98
\* where the caller goes on after lazyInit: remove (list.go:328),
\* insertValueBefore (list.go:351) or insertValueAfter (list.go:360)
AfterLazyInit(name) ==
  IF name \in Copies THEN "copy_front"
  ELSE IF name = "Remove" \/ name \in Befores THEN "pred_read" ELSE "ia_at"

\* list.go:70-76: nothing to do when Len() != 0
LazyInitLen(l, name) == IF l_len[l] # 0 THEN AfterLazyInit(name) ELSE "lazy_head"

\* list.go:78
lazyInitHead(t) ==
  /\ At(t, "lazy_head")
  /\ CanLock(t)
  /\ mutex' = [mutex EXCEPT ![HeadOf(reg[t].l)] = t]
  /\ Goto(t, "lazy_tail")
  /\ UNCHANGED <<next, prev, list, Value, l_len, nElems, reg, op, last, nOps, ref,
                 panicked, genFrame>>

\* list.go:80-97: the second check of Len() and the initialisation, made
\* when the list is not initialised or when Init asks for it (clear)
lazyInitTail(t) ==
  LET l == reg[t].l
      h == HeadOf(l)
      tl == TailOf(l)
      init == l_len[l] = 0 \/ op[t].name = "Init"
  IN
  /\ At(t, "lazy_tail")
  /\ CanLock(t)
  /\ l_len' = IF init THEN [l_len EXCEPT ![l] = 0] ELSE l_len
  /\ prev' = IF init THEN [prev EXCEPT ![h] = Nil, ![tl] = h] ELSE prev
  /\ next' = IF init THEN [next EXCEPT ![h] = tl, ![tl] = Nil] ELSE next
  /\ list' = IF init THEN [list EXCEPT ![h] = l, ![tl] = l] ELSE list
  /\ mutex' = [mutex EXCEPT ![h] = Unlocked]
  /\ IF op[t].name = "Init"
       THEN GReturn(t, TRUE, Nil)
       ELSE Goto(t, AfterLazyInit(op[t].name)) /\ UNCHANGED <<reg, op, last>>
  /\ UNCHANGED <<Value, nElems, nOps, ref, panicked, genFrame>>

\* ---- insertAfter(first, first, at), list.go:149-179
\* list.go:157
insertAfterAt(t) ==
  /\ At(t, "ia_at")
  /\ CanLock(t)
  /\ mutex' = [mutex EXCEPT ![reg[t].at] = t]
  /\ Goto(t, "ia_first")
  /\ UNCHANGED <<next, prev, list, Value, l_len, nElems, reg, op, last, nOps, ref,
                 panicked, genFrame>>

\* mutant: insertAfter only looks whether at has a successor
NotInListUnlinked(at, l) == next[at] = Nil

\* list.go:166: at is no longer in l
NotInList(at, l) == list[at] # l \/ next[at] = Nil

\* list.go:159-169: first is locked, then at is looked at
insertAfterFirst(t) ==
  LET at == reg[t].at
      n == next[at]
  IN
  /\ At(t, "ia_first")
  /\ CanLock(t)
  /\ IF NotInList(at, reg[t].l)
       THEN /\ mutex' = [mutex EXCEPT ![at] = Unlocked]
            /\ GReturn(t, FALSE, Nil)
       ELSE /\ mutex' = IF IsNew(t) THEN mutex ELSE [mutex EXCEPT ![reg[t].e] = t]
            /\ reg' = [reg EXCEPT ![t].n = n]
            /\ Goto(t, "ia_n")
            /\ UNCHANGED <<op, last>>
  /\ UNCHANGED <<next, prev, list, Value, l_len, nElems, nOps, ref, panicked, genFrame>>

\* list.go:170-178: n is locked, the element linked between at and n
insertAfterN(t) ==
  LET l == reg[t].l
      at == reg[t].at
      e == First(t)
      n == reg[t].n
  IN
  /\ At(t, "ia_n")
  /\ CanLock(t)
  /\ next' = [x \in Nodes |-> IF x = Last(t) THEN n
                               ELSE IF x \in e..Last(t) THEN x + 1
                               ELSE IF x = at THEN e ELSE next[x]]
  /\ prev' = [x \in Nodes |-> IF x = n THEN Last(t)
                               ELSE IF x = e THEN at
                               ELSE IF x \in e..Last(t) THEN x - 1 ELSE prev[x]]
  /\ l_len' = [l_len EXCEPT ![l] = @ + Made(t)]
  /\ list' = IF IsNew(t) THEN [x \in Nodes |-> IF x \in e..Last(t) THEN l ELSE list[x]]
                         ELSE list
  /\ Value' = IF IsNew(t)
                THEN [x \in Elems |-> IF x \in e..Last(t) THEN ValueIn(t, x) ELSE Value[x]]
                ELSE Value
  /\ nElems' = IF IsNew(t) THEN nElems + Made(t) ELSE nElems
  /\ mutex' = [mutex EXCEPT ![at] = Unlocked, ![e] = Unlocked]
  /\ GReturn(t, TRUE, IF op[t].name \in Copies THEN Nil ELSE e)
  /\ UNCHANGED <<nOps, ref, panicked, genFrame>>

\* ---- predecessor(x), list.go:189-206

\* list.go:190-192 and 201-205: under the read lock of x
predecessorRead(t) ==
  LET x == Target(t)
      p == prev[x]
  IN
  /\ At(t, "pred_read")
  /\ CanLock(t)
  /\ IF list[x] = reg[t].l /\ p # Nil
       THEN /\ reg' = [reg EXCEPT ![t].p = p]
            /\ Goto(t, "pred_lock")
            /\ UNCHANGED <<op, last>>
       ELSE \* nil: remove returns (e, false) at list.go:253, insertBefore
            \* (nil, false) at list.go:222
            GReturn(t, FALSE, Nil)
  /\ UNCHANGED <<next, prev, list, mutex, Value, l_len, nElems, nOps, ref, panicked,
                 genFrame>>

\* list.go:195-200: p is locked and is the predecessor if p.next is still x
predecessorLock(t) ==
  LET x == Target(t)
      p == reg[t].p
  IN
  /\ At(t, "pred_lock")
  /\ CanLock(t)
  /\ IF next[p] = x
       THEN /\ mutex' = [mutex EXCEPT ![p] = t]
            /\ Goto(t, IF reg[t].who = "remove" THEN "rm_e" ELSE "ib_first")
       ELSE /\ mutex' = mutex
            /\ Goto(t, "pred_read")
  /\ UNCHANGED <<next, prev, list, Value, l_len, nElems, reg, op, last, nOps, ref,
                 panicked, genFrame>>

\* ---- insertBefore(first, first, at), list.go:211-240
\* list.go:225
insertBeforeFirst(t) ==
  /\ At(t, "ib_first")
  /\ CanLock(t)
  /\ mutex' = IF IsNew(t) THEN mutex ELSE [mutex EXCEPT ![reg[t].e] = t]
  /\ Goto(t, "ib_at")
  /\ UNCHANGED <<next, prev, list, Value, l_len, nElems, reg, op, last, nOps, ref,
                 panicked, genFrame>>

\* list.go:231-239: at is locked, the element linked between p and at
insertBeforeAt(t) ==
  LET l == reg[t].l
      at == reg[t].at
      e == First(t)
      p == reg[t].p
  IN
  /\ At(t, "ib_at")
  /\ CanLock(t)
  /\ next' = [x \in Nodes |-> IF x = Last(t) THEN at
                               ELSE IF x \in e..Last(t) THEN x + 1
                               ELSE IF x = p THEN e ELSE next[x]]
  /\ prev' = [x \in Nodes |-> IF x = at THEN Last(t)
                               ELSE IF x = e THEN p
                               ELSE IF x \in e..Last(t) THEN x - 1 ELSE prev[x]]
  /\ l_len' = [l_len EXCEPT ![l] = @ + Made(t)]
  /\ list' = IF IsNew(t) THEN [x \in Nodes |-> IF x \in e..Last(t) THEN l ELSE list[x]]
                         ELSE list
  /\ Value' = IF IsNew(t)
                THEN [x \in Elems |-> IF x \in e..Last(t) THEN ValueIn(t, x) ELSE Value[x]]
                ELSE Value
  /\ nElems' = IF IsNew(t) THEN nElems + Made(t) ELSE nElems
  /\ mutex' = [mutex EXCEPT ![p] = Unlocked, ![e] = Unlocked]
  /\ GReturn(t, TRUE, IF op[t].name \in Copies THEN Nil ELSE e)
  /\ UNCHANGED <<nOps, ref, panicked, genFrame>>

\* ---- remove(e), list.go:249-269
\* list.go:256-258
removeE(t) ==
  LET e == reg[t].e IN
  /\ At(t, "rm_e")
  /\ CanLock(t)
  /\ mutex' = [mutex EXCEPT ![e] = t]
  /\ reg' = [reg EXCEPT ![t].n = next[e]]
  /\ IF next[e] = Nil
       THEN Panic(t)      \* n.mutex.Lock() of a nil n
       ELSE Goto(t, "rm_n") /\ UNCHANGED panicked
  /\ UNCHANGED <<next, prev, list, Value, l_len, nElems, op, last, nOps, ref, genFrame>>

NotDecremented(n) == n

\* the counter after remove, list.go:262
Decremented(n) == n - 1

\* list.go:259-268: n is locked, e unlinked; Remove returns e.Value
\* (list.go:329-331), a move goes on to insert e (list.go:291-293, 317-319)
removeN(t) ==
  LET l == reg[t].l
      e == reg[t].e
      p == reg[t].p
      n == reg[t].n
  IN
  /\ At(t, "rm_n")
  /\ CanLock(t)
  /\ l_len' = [l_len EXCEPT ![l] = Decremented(@)]
  /\ next' = [next EXCEPT ![p] = n, ![e] = Nil]
  /\ prev' = [prev EXCEPT ![n] = p, ![e] = Nil]
  /\ list' = [list EXCEPT ![e] = Nil]
  /\ mutex' = [mutex EXCEPT ![p] = Unlocked, ![e] = Unlocked]
  /\ IF op[t].name = "Remove"
       THEN GReturn(t, TRUE, Value[e])
       ELSE /\ reg' = [reg EXCEPT ![t].who = "insert"]
            /\ Goto(t, "mv_list")
            /\ UNCHANGED <<op, last>>
  /\ UNCHANGED <<Value, nElems, nOps, ref, panicked, genFrame>>

\* ---- moveAfter(e, at), list.go:272-295, and moveBefore(e, at),
\* list.go:298-321
\* e is where the move would put it: list.go:278, 304
InPlace(name, e, at) == IF name \in Befores THEN prev[at] = e ELSE next[at] = e

\* list.go:277-286, 303-312: under the read lock of at
moveCheck(t) ==
  LET e == reg[t].e
      at == reg[t].at
  IN
  /\ At(t, "mv_check")
  /\ CanLock(t)
  /\ IF InPlace(op[t].name, e, at) THEN GReturn(t, TRUE, e)
     ELSE IF list[at] # reg[t].l THEN GReturn(t, FALSE, e)
     ELSE /\ Goto(t, "pred_read")
          /\ UNCHANGED <<reg, op, last>>
  /\ UNCHANGED <<next, prev, list, mutex, Value, l_len, nElems, nOps, ref, panicked,
                 genFrame>>

\* list.go:150-155, 212-217: e.list = l, before any lock is taken
moveList(t) ==
  /\ At(t, "mv_list")
  /\ list' = [list EXCEPT ![reg[t].e] = reg[t].l]
  /\ Goto(t, IF op[t].name \in Befores THEN "pred_read" ELSE "ia_at")
  /\ UNCHANGED <<next, prev, mutex, Value, l_len, nElems, reg, op, last, nOps, ref,
                 panicked, genFrame>>

\* ---- the exported functions
\* an element can be made: one is left for every insertion that is running
CanMake == nElems + Cardinality({u \in Threads : op[u].name \in Inserts}) < MaxElems

\* InsertBefore, InsertAfter, PushFront and PushBack up to the first check
\* of lazyInit (list.go:350, 359, 70)
CallInsert(t, name, l, mark) ==
  /\ Called(t, l)
  /\ CanMake
  /\ Running(t, name, l, Nil, mark)
  /\ reg' = [reg EXCEPT ![t] = [NoReg EXCEPT !.l = l, !.at = mark, !.who = "insert"]]
  /\ Goto(t, LazyInitLen(l, name))
  /\ last' = Cleared
  /\ UNCHANGED <<next, prev, list, mutex, Value, l_len, nElems, panicked, genFrame>>

\* list.go:336-338
PushFront(t) == \E l \in Lists : CallInsert(t, "PushFront", l, HeadOf(l))
\* list.go:341-343
PushBack(t) == \E l \in Lists : CallInsert(t, "PushBack", l, TailOf(l))
\* list.go:348-353
InsertBefore(t) ==
  \E l \in Lists, mark \in Elements : CallInsert(t, "InsertBefore", l, mark)
\* list.go:358-362
InsertAfter(t) ==
  \E l \in Lists, mark \in Elements : CallInsert(t, "InsertAfter", l, mark)

\* list.go:326-327, 70
Remove(t) ==
  \E l \in Lists, e \in Elements :
    /\ Called(t, l)
    /\ Running(t, "Remove", l, e, Nil)
    /\ reg' = [reg EXCEPT ![t] = [NoReg EXCEPT !.l = l, !.e = e, !.who = "remove"]]
    /\ Goto(t, LazyInitLen(l, "Remove"))
    /\ last' = Cleared
    /\ UNCHANGED <<next, prev, list, mutex, Value, l_len, nElems, panicked, genFrame>>

\* a move up to its first lock: MoveToFront and MoveToBack return when
\* e.list != l (list.go:368, 379), moveAfter and moveBefore when e == at
\* (list.go:274, 300)
CallMove(t, name, l, e, mark) ==
  /\ Called(t, l)
  /\ IF name \in {"MoveToFront", "MoveToBack"} /\ list[e] # l
       THEN Returns(t, name, l, e, mark, FALSE, e)
     ELSE IF e = mark
       THEN Returns(t, name, l, e, mark, TRUE, e)
     ELSE /\ Running(t, name, l, e, mark)
          /\ reg' = [reg EXCEPT ![t] = [NoReg EXCEPT !.l = l, !.e = e, !.at = mark,
                                                       !.who = "remove"]]
          /\ Goto(t, "mv_check")
          /\ last' = Cleared
  /\ UNCHANGED <<next, prev, list, mutex, Value, l_len, nElems, panicked, genFrame>>

\* list.go:367-373
MoveToFront(t) ==
  \E l \in Lists, e \in Elements : CallMove(t, "MoveToFront", l, e, HeadOf(l))
\* list.go:378-384
MoveToBack(t) ==
  \E l \in Lists, e \in Elements : CallMove(t, "MoveToBack", l, e, TailOf(l))
\* list.go:389-391
MoveBefore(t) ==
  \E l \in Lists, e \in Elements, mark \in Elements : CallMove(t, "MoveBefore", l, e, mark)
\* list.go:396-398
MoveAfter(t) ==
  \E l \in Lists, e \in Elements, mark \in Elements : CallMove(t, "MoveAfter", l, e, mark)

\* ---- Front, list.go:116-128, and Back, list.go:131-145
\* list.go:117-119, 132-134: the first look at the counter; Back reads it
\* with no synchronisation, which shows it the value some moment had
CallEnd(t, name, l, label) ==
  /\ Called(t, l)
  /\ IF l_len[l] = 0
       THEN Returns(t, name, l, Nil, Nil, FALSE, Nil)
       ELSE /\ Running(t, name, l, Nil, Nil)
            /\ reg' = [reg EXCEPT ![t] = [NoReg EXCEPT !.l = l]]
            /\ Goto(t, label)
            /\ last' = Cleared
  /\ UNCHANGED <<next, prev, list, mutex, Value, l_len, nElems, panicked, genFrame>>

Front(t) == \E l \in Lists : CallEnd(t, "Front", l, "front_lock")
Back(t) == \E l \in Lists : CallEnd(t, "Back", l, "back_lock")

\* mutant: Front does not look at the counter again under the lock
FrontUnchecked(l) == next[HeadOf(l)]

\* list.go:124-127: the second look at the counter, then l.head.next
FrontChecked(l) == IF l_len[l] = 0 THEN Nil ELSE next[HeadOf(l)]

\* list.go:121-127: under the read lock of head
frontLocked(t) ==
  LET l == reg[t].l
      e == FrontChecked(l)
  IN
  /\ At(t, "front_lock")
  /\ CanLock(t)
  /\ GReturn(t, e # Nil, e)
  /\ UNCHANGED <<next, prev, list, mutex, Value, l_len, nElems, nOps, ref, panicked,
                 genFrame>>

\* list.go:136-144: under the read lock of tail
backLocked(t) ==
  LET l == reg[t].l
      e == IF l_len[l] = 0 THEN Nil ELSE prev[TailOf(l)]
  IN
  /\ At(t, "back_lock")
  /\ CanLock(t)
  /\ GReturn(t, e # Nil, e)
  /\ UNCHANGED <<next, prev, list, mutex, Value, l_len, nElems, nOps, ref, panicked,
                 genFrame>>

\* ---- Element.Next, list.go:34-42, and Element.Prev, list.go:45-53
CallElement(t, name, e, label) ==
  /\ Called(t, Nil)
  /\ Running(t, name, Nil, e, Nil)
  /\ reg' = [reg EXCEPT ![t] = [NoReg EXCEPT !.e = e]]
  /\ Goto(t, label)
  /\ last' = Cleared
  /\ UNCHANGED <<next, prev, list, mutex, Value, l_len, nElems, panicked, genFrame>>

ElementNext(t) == \E e \in Elements : CallElement(t, "Next", e, "el_next")
ElementPrev(t) == \E e \in Elements : CallElement(t, "Prev", e, "el_prev")

\* list.go:35-41: under the read lock of e
elementNextLocked(t) ==
  LET e == reg[t].e
      p == IF list[e] # Nil /\ next[e] # TailOf(list[e]) THEN next[e] ELSE Nil
  IN
  /\ At(t, "el_next")
  /\ CanLock(t)
  /\ GReturn(t, p # Nil, p)
  /\ UNCHANGED <<next, prev, list, mutex, Value, l_len, nElems, nOps, ref, panicked,
                 genFrame>>

\* list.go:46-52: under the read lock of e
elementPrevLocked(t) ==
  LET e == reg[t].e
      p == IF list[e] # Nil /\ prev[e] # HeadOf(list[e]) THEN prev[e] ELSE Nil
  IN
  /\ At(t, "el_prev")
  /\ CanLock(t)
  /\ GReturn(t, p # Nil, p)
  /\ UNCHANGED <<next, prev, list, mutex, Value, l_len, nElems, nOps, ref, panicked,
                 genFrame>>

GenNext ==
  \/ \E t \in Threads : PushFront(t)
  \/ \E t \in Threads : PushBack(t)
  \/ \E t \in Threads : InsertBefore(t)
  \/ \E t \in Threads : InsertAfter(t)
  \/ \E t \in Threads : Remove(t)
  \/ \E t \in Threads : MoveToFront(t)
  \/ \E t \in Threads : MoveToBack(t)
  \/ \E t \in Threads : MoveBefore(t)
  \/ \E t \in Threads : MoveAfter(t)
  \/ \E t \in Threads : Front(t)
  \/ \E t \in Threads : Back(t)
  \/ \E t \in Threads : ElementNext(t)
  \/ \E t \in Threads : ElementPrev(t)
  \/ \E t \in Threads : lazyInitHead(t)
  \/ \E t \in Threads : lazyInitTail(t)
  \/ \E t \in Threads : insertAfterAt(t)
  \/ \E t \in Threads : insertAfterFirst(t)
  \/ \E t \in Threads : insertAfterN(t)
  \/ \E t \in Threads : predecessorRead(t)
  \/ \E t \in Threads : predecessorLock(t)
  \/ \E t \in Threads : insertBeforeFirst(t)
  \/ \E t \in Threads : insertBeforeAt(t)
  \/ \E t \in Threads : removeE(t)
  \/ \E t \in Threads : removeN(t)
  \/ \E t \in Threads : moveCheck(t)
  \/ \E t \in Threads : moveList(t)
  \/ \E t \in Threads : frontLocked(t)
  \/ \E t \in Threads : backLocked(t)
  \/ \E t \in Threads : elementNextLocked(t)
  \/ \E t \in Threads : elementPrevLocked(t)

GenSpec == GenInit /\ [][GenNext]_vars

\* ---- Init, list.go:101-103: lazyInit(true) locks head and tail and clears
\* the list whatever its length (list.go:74-96)
InitList(t) ==
  \E l \in Lists :
    /\ Called(t, l)
    /\ Running(t, "Init", l, Nil, Nil)
    /\ reg' = [reg EXCEPT ![t] = [NoReg EXCEPT !.l = l]]
    /\ Goto(t, "lazy_head")
    /\ last' = Cleared
    /\ UNCHANGED <<next, prev, list, mutex, Value, l_len, nElems, panicked, genFrame>>

\* ---- PushBackList, list.go:411-417, and PushFrontList, list.go:421-427
\* the call up to the first check of lazyInit (list.go:412, 422, 70), made
\* with no other call running and with elements left for the copies
CallCopy(t, name, l, other, mark) ==
  /\ AllIdle
  /\ nElems + l_len[other] <= Cardinality(Elems)
  /\ Called(t, l)
  /\ Running(t, name, l, other, mark)
  /\ reg' = [reg EXCEPT ![t] = [NoReg EXCEPT !.l = l, !.at = mark, !.who = "insert"]]
  /\ Goto(t, LazyInitLen(l, name))
  /\ last' = Cleared
  /\ UNCHANGED <<next, prev, list, mutex, Value, l_len, nElems, panicked, genFrame>>

PushBackList(t) ==
  \E l \in Lists, other \in Lists : CallCopy(t, "PushBackList", l, other, TailOf(l))
PushFrontList(t) ==
  \E l \in Lists, other \in Lists : CallCopy(t, "PushFrontList", l, other, HeadOf(l))

\* copyListElements, list.go:402-403: tmp := New(), a list no other thread
\* knows, and e := l.Front(); an empty list gives no range to insert
\* (list.go:406, 414, 424)
copyFront(t) ==
  LET e == FrontChecked(op[t].val) IN
  /\ At(t, "copy_front")
  /\ CanLock(t)
  /\ IF e = Nil
       THEN GReturn(t, TRUE, Nil)
       ELSE /\ reg' = [reg EXCEPT ![t].n = e]
            /\ Goto(t, "copy_next")
            /\ UNCHANGED <<op, last>>
  /\ UNCHANGED <<next, prev, list, mutex, Value, l_len, nElems, nOps, ref, panicked,
                 genFrame>>

\* copyListElements, list.go:403-406: tmp.insertValueBefore(e.Value,
\* &tmp.tail) and e = e.Next() (list.go:35-41); after the last element the
\* range tmp.Front() .. tmp.Back() goes to insertBefore (list.go:415) or to
\* insertAfter (list.go:425)
copyNext(t) ==
  LET e == reg[t].n
      v == IF e \in Elems THEN Value[e] ELSE Nil
      p == IF list[e] # Nil /\ next[e] # TailOf(list[e]) THEN next[e] ELSE Nil
  IN
  /\ At(t, "copy_next")
  /\ CanLock(t)
  /\ nElems + Len(reg[t].tmp) < Cardinality(Elems)
  /\ reg' = [reg EXCEPT ![t].tmp = Append(@, v), ![t].n = p]
  /\ Goto(t, IF p # Nil THEN "copy_next"
             ELSE IF op[t].name \in Befores THEN "pred_read" ELSE "ia_at")
  /\ UNCHANGED <<next, prev, list, mutex, Value, l_len, nElems, op, last, nOps, ref,
                 panicked, genFrame>>

\* the general list with Init and the list copies
FullNext ==
  \/ GenNext
  \/ \E t \in Threads : InitList(t)
  \/ \E t \in Threads : PushBackList(t)
  \/ \E t \in Threads : PushFrontList(t)
  \/ \E t \in Threads : copyFront(t)
  \/ \E t \in Threads : copyNext(t)

FullSpec == GenInit /\ [][FullNext]_vars

\* ---------------------------------------------------------- claims ----
\* C1: with a single caller adding pairwise-distinct keys to a cache of
\* capacity C, the i-th Add returns false for i <= C and true for i > C,
\* whatever the worker and the insertions have done meanwhile.
AddFlags ==
  \A t \in Threads :
    (OnlyCaller(t) /\ DistinctKeys(t)) =>
      \A i \in 1..Len(adds[t]) : adds[t][i].ok = (i > size)

\* an Add below the capacity has returned false and one above it true
AddFlagsWitness ==
  \E t \in Threads :
    /\ OnlyCaller(t) /\ DistinctKeys(t)
    /\ Len(adds[t]) > size
    /\ ~adds[t][size].ok
    /\ adds[t][size + 1].ok

\* C4: in every quiescent state Len() is the number of keys in the map, at
\* most capacity, and the eviction list holds exactly one node per map
\* entry, whose value is that entry.
QuiescentShape ==
  Quiescent =>
    LET s == ListSeq(Evict)
    IN /\ len = Cardinality(Resident)
       /\ len <= capacity
       /\ Len(s) = Cardinality(Resident)
       /\ {Value[s[i]] : i \in 1..Len(s)} = {items[k] : k \in Resident}
       /\ \A k \in Resident : item[items[k]].key = k

\* a quiescent state of a full cache after an eviction
QuiescentShapeWitness ==
  /\ Quiescent
  /\ len = capacity
  /\ Len(evictLog) > 0
  /\ Len(ListSeq(Evict)) = capacity

\* thread t has issued exactly two calls, Add(k1, v1) and then Add(k2, v2)
\* with k2 # k1, to a cache of capacity 1, and both have returned
TwoAdds(t) ==
  /\ size = 1
  /\ OnlyCaller(t)
  /\ nOps[t] = 2
  /\ Len(adds[t]) = 2
  /\ pc[t] = "idle"
  /\ DistinctKeys(t)

\* C3 as claimed: after Add(k1, v1) and Add(k2, v2) on a capacity-1 cache
\* the only eviction is of the older entry (k1, v1): onEvict is never
\* invoked for k2, and k2 stays resident.
EvictsOlder ==
  \A t \in Threads :
    TwoAdds(t) =>
      /\ Len(evictLog) <= 1
      /\ \A n \in 1..Len(evictLog) : evictLog[n].it = adds[t][1].it
      /\ adds[t][2].it \notin popped
      /\ items[KeyOf(adds[t][2])] = adds[t][2].it

\* C3 as amended: exactly one eviction follows, of either entry: at most
\* one of the two entries is popped, onEvict receives the key and value of
\* a popped entry, the entry that is not popped stays resident, and once
\* the cache is quiescent onEvict has been invoked exactly once and exactly
\* the other key is resident.
EvictsOneOfTwo ==
  \A t \in Threads :
    TwoAdds(t) =>
      LET a == adds[t][1].it
          b == adds[t][2].it
      IN /\ Cardinality(popped \cap {a, b}) <= 1
         /\ Len(evictLog) <= 1
         /\ \A n \in 1..Len(evictLog) :
              /\ evictLog[n].it \in popped \cap {a, b}
              /\ evictLog[n].key = item[evictLog[n].it].key
              /\ evictLog[n].value = item[evictLog[n].it].value
         /\ \A i \in {a, b} \ popped : items[item[i].key] = i
         /\ Quiescent =>
              /\ Len(evictLog) = 1
              /\ len = 1
              /\ \A i \in {a, b} : (items[item[i].key] = i) = (i # evictLog[1].it)

\* the two Adds have returned, the cache is quiescent and the one eviction
\* was of the entry added last
EvictsOneOfTwoWitness ==
  \E t \in Threads :
    /\ TwoAdds(t)
    /\ Quiescent
    /\ Len(evictLog) = 1
    /\ evictLog[1].it = adds[t][2].it
    /\ items[KeyOf(adds[t][1])] = adds[t][1].it

\* C5: a Get that follows an Add of the same key by the same thread, with
\* no eviction of the entry in between, returns (value just added, true),
\* also when the insertion scheduled by the Add is still pending.
GetAfterAdd ==
  \A t \in Threads :
    (last[t].name = "Get" /\ last[t].after # Nil /\ last[t].after \notin popped) =>
      /\ last[t].ok
      /\ last[t].out = item[last[t].after].value

\* C6: Add(k, v2) on a key that is resident and not being evicted returns
\* false, keeps the entry and its list node, leaves Len() alone and makes
\* v2 the value Peek(k) returns.
AddResident ==
  \A t \in Threads :
    (op[t].name = "Add" /\ op[t].found # Nil /\ op[t].found \notin popped) =>
      /\ pc[t] # "panic"
      /\ items[op[t].key] = op[t].found
      /\ PeekOf(op[t].key) = <<op[t].val, TRUE>>
      /\ len = Cardinality(Resident) => nItems = Cardinality(Resident) + Len(evictLog)

\* C7: round trip: Add(k, v) followed by Peek(k) returns (v, true) for every
\* key k and value v, provided no eviction of k happens between the calls.
AddPeekRoundTrip ==
  \A t \in Threads :
    /\ op[t].name = "Add" => pc[t] # "panic"
    /\ (last[t].name = "Peek" /\ last[t].after # Nil /\ last[t].after \notin popped) =>
         /\ last[t].ok
         /\ last[t].out = item[last[t].after].value

\* C8: when Close returns, every entry has been evicted: Len() is 0, the
\* map is empty, onEvict has been invoked once for each entry that was
\* resident, and the worker has exited.
CloseDrains ==
  \A t \in Threads :
    pc[t] = "closed" =>
      /\ len = 0
      /\ Resident = {}
      /\ \A i \in 1..nItems : Evictions(i) = 1
      /\ Len(evictLog) = nItems
      /\ pc[Worker] = "w_done"
      /\ workers = 0

\* Close has returned from a cache that held entries when it was called
CloseDrainsWitness ==
  \E t \in Threads :
    /\ pc[t] = "closed"
    /\ nItems = MaxOps
    /\ Len(evictLog) = nItems
    /\ evictLog[nItems].it # nItems

\* C10: a Get that races with the eviction of its entry never crashes; it
\* returns (value, true) or (none, false).
GetNeverCrashes ==
  \A t \in Threads :
    /\ op[t].name = "Get" => pc[t] # "panic"
    /\ last[t].name = "Get" =>
         \/ last[t].ok /\ last[t].out = item[last[t].it].value
         \/ ~last[t].ok /\ last[t].out = Nil

\* no call is running and none will be issued: the threads stay idle
QuietOpen == ~panicked /\ AllIdle
Settled ==
  \A t \in Threads :
    (OnlyCaller(t) /\ DistinctKeys(t) /\ Len(adds[t]) > size) =>
      /\ len = size
      /\ Len(evictLog) = Len(adds[t]) - size

\* C2: after N > C Adds of pairwise-distinct keys have returned and the
\* caller issues nothing more, the cache reaches and stays in a state where
\* Len() = C and onEvict has been invoked exactly N - C times.
AddsSettle == <>[]QuietOpen => <>[]Settled

\* N = C + 2 Adds have returned and the cache has settled
AddsSettleWitness ==
  \E t \in Threads :
    /\ Quiescent
    /\ OnlyCaller(t) /\ DistinctKeys(t)
    /\ Len(adds[t]) = size + 2
    /\ len = size
    /\ Len(evictLog) = 2

CloseCalled == \E t \in Threads : pc[t] \in {"close_list", "close_wait"}
CloseReturned == \E t \in Threads : pc[t] = "closed"

\* C9: Close terminates: once Close has been called (every Add has returned
\* by then), it returns, wherever the worker was when capacity became 0.
CloseTerminates == CloseCalled ~> CloseReturned

\* Close has set capacity to 0 while the worker was giving back a failed
\* PopBack
CloseTerminatesWitness == CloseCalled /\ pc[Worker] = "w_restore"

\* thread t takes a step of a call of Peek or Contains: it issues one that
\* returns at once, or moves on within one
Observing == {"Peek", "Contains"}
ObserverStep(t) ==
  /\ pc'[t] # pc[t] \/ nOps'[t] # nOps[t]
  /\ \/ op[t].name \in Observing
     \/ op'[t].name \in Observing
     \/ /\ nOps'[t] # nOps[t]
        /\ op'[t].name = "none"
        /\ last'[t].name \in Observing

\* C11: Peek and Contains change nothing: every step of such a call, for a
\* key that is present or absent, leaves the map and its entries, the length
\* counter, the links and the length of the eviction list and its
\* pendingInsertions counter unchanged.
PeekContainsFrame ==
  [][\A t \in Threads :
       ObserverStep(t) =>
         UNCHANGED <<items, item, len, next, prev, list, l_len, pendingInsertions>>]_vars

\* a Peek has found its key while the insertion of the entry was pending
PeekContainsFrameWitness ==
  \E t \in Threads :
    /\ last[t].name = "Peek"
    /\ last[t].ok
    /\ pendingInsertions[Evict] > 0
    /\ len > 0

\* C12: the LRU list used sequentially, with a wait for pendingInsertions = 0
\* after each call, behaves as the reference sequence: PushFront returns a
\* new node and puts it first, MoveToFront makes its node first and keeps
\* the order of the others, PopBack returns and removes the last node, and
\* Len is the length of the sequence.
RefinesSequence ==
  (ref.following /\ ~ref.rep) =>
    /\ \A t \in Threads :
         pc[t] = "l_ret" =>
           /\ op[t].name = "PopBack" => reg[t].e = ref.ret
           /\ op[t].name = "PushFront" => reg[t].e = ref.e
           /\ \A l \in Lists : l_len[l] = Len(ref.s[l])
    /\ ListQuiescent =>
         \A l \in Lists : ListSeq(l) = ref.s[l] /\ l_len[l] = Len(ref.s[l])

\* three nodes pushed with a wait after each, then the one in the middle
\* moved to the front
RefinesSequenceWitness ==
  /\ ref.following
  /\ ListQuiescent
  /\ ref.s[Evict] = <<2, 3, 1>>
  /\ ListSeq(Evict) = <<2, 3, 1>>

\* C13: MoveToFront of the LRU list is idempotent: MoveToFront(n) of a node
\* n of the list returns true, a second MoveToFront(n) right after it
\* returns true as well, and after quiescence the list has the order and the
\* Len that one call gives.
MoveToFrontIdempotent ==
  ref.following =>
    /\ \A t \in Threads :
         (pc[t] = "l_ret" /\ op[t].name = "MoveToFront" /\ ref.from = op[t].key) =>
           reg[t].ok
    /\ (ref.rep /\ ListQuiescent) =>
         /\ ListSeq(ref.from) = ref.s[ref.from]
         /\ ref.s[ref.from][1] = ref.e
         /\ l_len[ref.from] = Len(ref.s[ref.from])

\* the last of two nodes was moved to the front twice in a row and the list
\* has come to rest
MoveToFrontIdempotentWitness ==
  /\ ref.following /\ ref.rep
  /\ ListQuiescent
  /\ ListSeq(Evict) = <<1, 2>>

\* the call made last moved a node of one list to another list
CrossMove == ref.following /\ ref.flag /\ ref.from # ref.to

\* C14: l2.MoveToFront(e) for a node e linked in the list l1 returns with e
\* unlinked from l1, l1.Len one less and l2.Len one more; once l2 has no
\* pending insertion e is the first node of l2 with e.list = l2, and the
\* other nodes of l1 and l2 are in the order they had.
CrossListMove ==
  CrossMove =>
    LET e == ref.e
        l1 == ref.from
        l2 == ref.to
    IN /\ pc[ref.by] \in {"l_ret", "idle"} =>
            /\ prev[e] = Nil \/ list[e] = l2
            /\ \A i \in 1..Len(ListSeq(l1)) : ListSeq(l1)[i] # e
            /\ ListSeq(l1) = ref.s[l1]
            /\ l_len[l1] = Len(ref.s[l1])
            /\ l_len[l2] = Len(ref.s[l2])
            /\ Len(ref.s[l2]) = Len(Without(ref.s[l2], e)) + 1
            /\ pc[ref.by] = "l_ret" => reg[ref.by].ok
       /\ ListQuiescent =>
            /\ ListSeq(l2) = ref.s[l2]
            /\ ListSeq(l2)[1] = e
            /\ list[e] = l2

\* the middle one of three nodes of Evict was moved to Other
CrossListMoveWitness ==
  /\ CrossMove
  /\ ListQuiescent
  /\ ListSeq(Evict) = <<3, 1>>
  /\ ListSeq(Other) = <<2>>
  /\ l_len = [l \in Lists |-> IF l = Evict THEN 2 ELSE 1]

\* e is linked in l or a mover is taking it to the front of l: it has
\* removed e and not yet scheduled the insertion, or the insertion is pending
InOrEntering(e, l) ==
  \/ prev[e] # Nil /\ list[e] = l
  \/ tpc[e] # "none" /\ tlist[e] = l
  \/ \E q \in Procs : pc[q] = "mtf_sched" /\ reg[q].e = e /\ reg[q].l = l
\* e was pushed and its first insertion is still pending
Fresh(e) == tpc[e] # "none" /\ list[e] = Nil
\* a PopBack has returned e
Popped(e) == \E u \in Threads : last[u].name = "PopBack" /\ last[u].out = e

\* C15: MoveToFront(e) on l returns true if the caller removed e itself,
\* true if it finds e removed and e belongs to l (a racing mover is taking it
\* to l), false if it finds e removed and e does not belong to l any more;
\* for a node that PopBack has returned it returns false.
MoveToFrontResult ==
  [][\A t \in Threads :
       (op[t].name = "MoveToFront" /\ pc[t] # "l_ret" /\ pc'[t] = "l_ret") =>
         LET e == reg[t].e
             l == reg[t].l
         IN /\ pc[t] = "mtf_sched" => reg'[t].ok
            /\ (pc[t] = "mtf_list" /\ ~Fresh(e)) => (reg'[t].ok <=> InOrEntering(e, l))
            /\ Popped(e) => ~reg'[t].ok]_vars

\* a MoveToFront has returned true for a node that a racing mover has
\* removed and not yet scheduled for insertion
MoveToFrontResultWitness ==
  \E t, u \in Threads :
    /\ t # u
    /\ pc[t] = "l_ret" /\ op[t].name = "MoveToFront" /\ reg[t].ok
    /\ pc[u] = "mtf_sched" /\ reg[u].e = reg[t].e /\ reg[u].l = reg[t].l

\* thread t takes a step of a call of PopBack
PopBackStep(t) == op[t].name = "PopBack" /\ pc'[t] # pc[t]

\* C16: PopBack does not wait for pending insertions: when it holds the
\* head as the node before the tail and no node is linked, it returns none
\* in that step, whatever Len and pendingInsertions are; and only the step
\* that returns a node changes len, pendingInsertions or a link.
PopBackNoWait ==
  [][\A t \in Threads :
       PopBackStep(t) =>
         LET l == reg[t].l
         IN /\ (pc[t] = "pb_pred_lock" /\ reg[t].p = HeadOf(l)
                 /\ next[HeadOf(l)] = TailOf(l)) =>
                  pc'[t] = "l_ret" /\ reg'[t].e = Nil
            /\ ~(pc'[t] = "l_ret" /\ reg'[t].e # Nil) =>
                  UNCHANGED <<next, prev, list, l_len, pendingInsertions>>]_vars

\* a PopBack has returned none from a list whose Len is 2, both insertions
\* pending
PopBackNoWaitWitness ==
  \E t \in Threads :
    /\ pc[t] = "l_ret" /\ op[t].name = "PopBack" /\ reg[t].e = Nil
    /\ l_len[reg[t].l] = 2
    /\ pendingInsertions[reg[t].l] = 2

\* the nodes of list l from tail.prev along prev to the head
RECURSIVE WalkBackFrom(_, _, _)
WalkBackFrom(x, l, fuel) ==
  IF x = HeadOf(l) \/ x = Nil \/ fuel = 0 THEN << >>
  ELSE <<x>> \o WalkBackFrom(prev[x], l, fuel - 1)
ListSeqBack(l) == WalkBackFrom(prev[TailOf(l)], l, Cardinality(Elems) + 1)
RECURSIVE Reverse(_)
Reverse(sq) == IF sq = << >> THEN << >> ELSE Reverse(Tail(sq)) \o <<Head(sq)>>
\* where a walk that started at node start and passed sq has stopped
LastOf(sq, start) == IF sq = << >> THEN start ELSE sq[Len(sq)]

\* what checkListPointers looks at: the walk along next from the head ends
\* at the tail after Len nodes, the walk along prev from the tail passes the
\* same nodes the other way round, and every element whose list is l sits
\* between its neighbours
WalkForward(l) ==
  /\ Len(ListSeq(l)) <= Cardinality(Elems)
  /\ next[LastOf(ListSeq(l), HeadOf(l))] = TailOf(l)
  /\ Len(ListSeq(l)) = l_len[l]
WalkBackward(l) ==
  /\ prev[LastOf(ListSeqBack(l), TailOf(l))] = HeadOf(l)
  /\ ListSeqBack(l) = Reverse(ListSeq(l))
Neighbours(l) ==
  \A n \in Elems :
    list[n] = l => /\ prev[n] # Nil /\ next[prev[n]] = n
                   /\ next[n] # Nil /\ prev[next[n]] = n
WellFormed(l) == WalkForward(l) /\ WalkBackward(l) /\ Neighbours(l)

\* no call of the general list is running
GenQuiescent == ~panicked /\ AllIdle

\* C17: whenever no call of the general list is running, each list is well
\* formed: walking next from head reaches tail through exactly Len nodes,
\* walking prev from tail passes the same nodes reversed, and every node
\* whose list is L has n.prev.next == n and n.next.prev == n.
WellFormedAtQuiescence == GenQuiescent => \A l \in Lists : WellFormed(l)

\* thread t waits for a node mutex that thread u holds
WaitsFor(t, u) == Wanted(t) # Nil /\ mutex[Wanted(t)] = u
\* a chain of at most k threads, each waiting for the next, from t to u
RECURSIVE WaitChain(_, _, _)
WaitChain(t, u, k) ==
  \/ WaitsFor(t, u)
  \/ k > 1 /\ \E v \in Threads \ {t} : WaitsFor(t, v) /\ WaitChain(v, u, k - 1)

\* C18: in no reachable state of the general list is there a cycle of
\* threads each waiting for a node mutex held by another.
NoWaitCycle == \A t \in Threads : ~WaitChain(t, t, Cardinality(Threads))

\* e is one of the nodes sq
InList(sq, e) == \E i \in 1..Len(sq) : sq[i] = e
\* the lists are as they were when the call was made
AsBefore ==
  /\ \A l \in Lists : ListSeq(l) = ref.s[l] /\ l_len[l] = ref.len[l]
  /\ \A x \in Elems : list[x] = ref.list[x]
\* list l has lost e and nothing else, and l.len is one less
RemovedOne(l, e) ==
  /\ ListSeq(l) = Without(ref.s[l], e)
  /\ l_len[l] = ref.len[l] - 1
  /\ list[e] = Nil
  /\ \A m \in Lists \ {l} : ListSeq(m) = ref.s[m] /\ l_len[m] = ref.len[m]
  /\ \A x \in Elems \ {e} : list[x] = ref.list[x]
\* thread t called Remove with no other call running, and it has returned
RemoveAlone(t) ==
  AllIdle /\ ~panicked /\ ref.calls = 1 /\ ref.by = t /\ last[t].name = "Remove"
\* both threads called Remove of one element on one list, the second while
\* the first was running, and both have returned
RemoveTogether ==
  /\ AllIdle /\ ~panicked /\ ref.calls = 2
  /\ \A t \in Threads : last[t].name = "Remove"
  /\ last[1].key = last[2].key /\ last[1].val = last[2].val
\* the threads whose Remove returned the value of e
GotValue(e) == {t \in Threads : last[t].name = "Remove" /\ last[t].out = Value[e]}

MoveAlone(t) ==
  AllIdle /\ ~panicked /\ ref.calls = 1 /\ ref.by = t /\ last[t].name \in Moves
\* when the call was made, e sat where the move would put it: right before
\* the mark, or right after it
AlreadyThere(name, l, e, mark) ==
  /\ InList(ref.s[l], e)
  /\ IF name \in Befores THEN NextIn(ref.s[l], l, e) = mark
                         ELSE PrevIn(ref.s[l], l, e) = mark
\* when the call was made, e or the mark was no member of l, or e was the
\* mark, or e was in place already
NothingToMove(name, l, e, mark) ==
  \/ ~InList(ref.s[l], e)
  \/ mark \in Elems /\ ~InList(ref.s[l], mark)
  \/ e = mark
  \/ AlreadyThere(name, l, e, mark)

\* C20: MoveToFront, MoveToBack, MoveBefore(e, mark) and MoveAfter(e, mark)
\* leave the order of every list, Len and every node's list unchanged when
\* e is not a member of the list, when mark is not a member of the list,
\* when e == mark, or when e is already at the requested position.
MoveFrame ==
  \A t \in Threads :
    MoveAlone(t) /\ NothingToMove(last[t].name, last[t].key, last[t].val, last[t].it)
      => AsBefore

\* an Add that counted its entry over capacity and has not signalled yet
\* (lru.go:154-159)
SignalToCome ==
  \E t \in Threads :
    /\ pc[t] \in {"pf_len", "pf_sched", "add_assign", "add_signal"}
    /\ Evicts(reg[t].n, capacity)
\* the worker is blocked in cleanup.Wait with entries to evict and nobody
\* about to wake it
SleepsOnWork == pc[Worker] = "w_wait" /\ len > capacity /\ ~SignalToCome

\* C24: the worker never sleeps on work: it is never blocked in the wait on
\* the condition variable while len > capacity with no Signal or Broadcast
\* still to come, and under fair scheduling every state with len > capacity
\* is followed by one with len <= capacity (unless the program has crashed).
NeverSleepsOnWork ==
  /\ [](~SleepsOnWork)
  /\ (len > capacity) ~> (len <= capacity \/ panicked)

\* the worker waits while an Add has counted an entry over capacity and is
\* about to signal
NeverSleepsOnWorkWitness ==
  pc[Worker] = "w_wait" /\ len > capacity /\ SignalToCome /\ ~panicked

\* the steps of the worker inside PopBack and while it evicts what PopBack
\* returned (lru.go:84-102)
Evicting ==
  pc[Worker] \in {"pb_pred_read", "pb_pred_lock", "rm_pred_read", "rm_pred_lock",
                  "rm_lock_e", "rm_lock_n", "w_restore", "w_removecb", "w_onevict"}

\* C25: the worker evicts only above capacity: every PopBack it performs is
\* preceded by a successful CAS of len from some n > capacity to n - 1, so
\* the worker never lowers len below capacity and never evicts an entry from
\* a cache that holds at most capacity entries.
EvictsOnlyAbove ==
  [][/\ (~Evicting /\ Evicting') =>
           /\ pc[Worker] = "w_cas"
           /\ reg[Worker].n = len /\ len > capacity /\ len' = len - 1
     /\ len' < len => pc[Worker] = "w_cas" /\ len' >= capacity
     /\ Evicting' => reg'[Worker].n > capacity'
     /\ (items' # items /\ pc[Worker] = "w_removecb") =>
           /\ len >= capacity
           /\ Cardinality(Resident) > capacity
     /\ evictLog' # evictLog => len >= capacity]_vars

\* the worker has evicted an entry and len is back at capacity
EvictsOnlyAboveWitness ==
  Len(evictLog) > 0 /\ len = capacity /\ capacity > 0 /\ pc[Worker] = "w_wait"

\* C26: eviction never removes a replacement: when the map entry of key k is
\* replaced by a fresh entry between the worker's PopBack of k's old node
\* and its RemoveCb, the fresh entry stays in the map and Peek(k) returns
\* its value.
ReplacementSurvives ==
  \A t \in Threads :
    (op[t].name = "Add" /\ op[t].found # Nil /\ op[t].found \in popped) =>
      /\ pc[t] # "panic"
      /\ items[op[t].key] \notin {Nil, op[t].found}
      /\ PeekOf(op[t].key) = <<op[t].val, TRUE>>

\* C27: in every reachable state of the LRU list with pendingInsertions == 0,
\* Len equals the number of nodes reachable from the head along next to the
\* tail, also between the atomic steps of PushFront and MoveToFront.
LenCountsLinked ==
  \A l \in Lists : pendingInsertions[l] = 0 => l_len[l] = Len(ListSeq(l))

\* the nodes PushFront has handed out for l, or MoveToFront has detached to
\* put them first in l, that are not linked in yet
Unlinked(l) ==
  {e \in Elems :
     \/ tpc[e] # "none" /\ tlist[e] = l
     \/ \E p \in Procs : pc[p] = "mtf_sched" /\ reg[p].e = e /\ reg[p].l = l}

\* C28: pendingInsertions equals, in every reachable state, the number of
\* nodes handed out by PushFront or detached by MoveToFront that are not yet
\* linked in, and it is never negative.
PendingCountsUnlinked ==
  \A l \in Lists :
    /\ pendingInsertions[l] = Cardinality(Unlinked(l))
    /\ pendingInsertions[l] >= 0

\* thread t called InsertBefore or InsertAfter with no other call running,
\* and it has returned
InsertAlone(t) ==
  /\ AllIdle /\ ~panicked /\ ref.calls = 1 /\ ref.by = t
  /\ last[t].name \in {"InsertBefore", "InsertAfter"}

EndAlone(t) ==
  /\ AllIdle /\ ~panicked /\ ref.calls = 1 /\ ref.by = t
  /\ last[t].name \in {"Front", "Back"}
\* the first or the last node of a sequence of nodes, none if it is empty
EndOf(name, sq) ==
  IF Len(sq) = 0 THEN Nil ELSE IF name = "Front" THEN sq[1] ELSE sq[Len(sq)]

\* C23: Front and Back return none whenever the list is empty and otherwise
\* a data node of the list (its first, its last); under concurrent inserts,
\* removes and moves they never return the head or the tail sentinel.
EndsAreElements ==
  \A t \in Threads :
    last[t].name \in {"Front", "Back"} =>
      /\ last[t].out \in Elems \cup {Nil}
      /\ last[t].out # Nil => last[t].out \in Elements
      /\ EndAlone(t) => last[t].out = EndOf(last[t].name, ref.s[last[t].key])

\* a Front that ran while another call emptied the list has returned none
EndsAreElementsWitness ==
  \E t \in Threads :
    /\ last[t].name = "Front" /\ last[t].out = Nil
    /\ ref.calls = 2 /\ ref.len[last[t].key] > 0
    /\ l_len[last[t].key] = 0

\* thread t called MoveBefore or MoveAfter(e, mark) on a list that held e and
\* mark, thread u removed the mark while the move was running, the move has
\* taken e out and failed, and both calls have returned
MoveLostMark(t, u) ==
  /\ AllIdle /\ ~panicked /\ ref.calls = 2
  /\ last[t].name \in {"MoveBefore", "MoveAfter"} /\ ~last[t].ok
  /\ last[t].val # last[t].it
  /\ InList(ref.s[last[t].key], last[t].val)
  /\ InList(ref.s[last[t].key], last[t].it)
  /\ last[u].name = "Remove" /\ last[u].key = last[t].key
  /\ last[u].val = last[t].it /\ last[u].out # Nil
  /\ ~InList(ListSeq(last[t].key), last[t].val)

\* C29: when mark is removed from the list between the remove step and the
\* insert step of MoveBefore/MoveAfter(e, mark), the move fails silently and
\* e ends detached: not reachable from the head, Len one lower than it would
\* be otherwise, and e's list none.
MoveRaceDetaches ==
  \A t, u \in Threads :
    MoveLostMark(t, u) =>
      LET l == last[t].key
          e == last[t].val
      IN /\ ListSeq(l) = Without(Without(ref.s[l], e), last[t].it)
         /\ l_len[l] = ref.len[l] - 2
         /\ next[e] = Nil /\ prev[e] = Nil
         /\ list[e] = Nil

\* thread t is in the loop of predecessor (list.go:191-201) with no other
\* call running, and what the loop reads makes it retry: x still names the
\* list, x.prev is not nil and x.prev.next is not x
Spinning(t) ==
  LET x == Target(t) IN
  /\ At(t, "pred_read")
  /\ \A u \in Threads \ {t} : pc[u] = "idle"
  /\ list[x] = reg[t].l
  /\ prev[x] # Nil
  /\ next[prev[x]] # x

\* C30: the predecessor lookup terminates after any finite sequence of
\* preceding or concurrent inserts, removes, moves and Init: it is never left
\* retrying, with no other call running, on an element that is no longer
\* linked.
PredecessorTerminates == \A t \in Threads : ~Spinning(t)

\* thread t called PushBackList or PushFrontList, and it has returned
CopyAlone(t) ==
  AllIdle /\ ~panicked /\ ref.calls = 1 /\ ref.by = t /\ last[t].name \in Copies
\* list m held as many elements as its counter said when the call was made
CountedThen(m) == ref.len[m] = Len(ref.s[m])
\* the k elements made last, in the order they were made
Newest(k) == [i \in 1..k |-> nElems - k + i]
\* list l holds what it held and copies of sq: fresh elements with the
\* values of sq in the order of sq, after the old ones or before them
Spliced(name, l, sq) ==
  /\ ListSeq(l) = IF name = "PushBackList" THEN ref.s[l] \o Newest(Len(sq))
                                           ELSE Newest(Len(sq)) \o ref.s[l]
  /\ \A i \in 1..Len(sq) :
       /\ Value[Newest(Len(sq))[i]] = Value[sq[i]]
       /\ list[Newest(Len(sq))[i]] = l
       /\ ref.list[Newest(Len(sq))[i]] = Nil
       /\ \A m \in Lists : ~InList(ref.s[m], Newest(Len(sq))[i])
\* a copy is running on lists that were counted right when it was called
CopyRuns(t) ==
  /\ ~panicked
  /\ op[t].name \in Copies
  /\ CountedThen(op[t].key) /\ CountedThen(op[t].val)

\* C22: PushBackList(other) appends, and PushFrontList(other) prepends, fresh
\* nodes carrying other's values in other's order, Len grows by other.Len()
\* and other is unchanged; when other is the list itself the list is doubled
\* (s becomes s followed by s); and the call terminates: while it runs it can
\* always take a step, it copies no more elements than other held and it
\* does not retry in predecessor.
CopiesInOrder ==
  \A t \in Threads :
    /\ (CopyAlone(t) /\ CountedThen(last[t].key) /\ CountedThen(last[t].val)) =>
         /\ Spliced(last[t].name, last[t].key, ref.s[last[t].val])
         /\ l_len[last[t].key] = ref.len[last[t].key] + ref.len[last[t].val]
         /\ \A m \in Lists \ {last[t].key} :
              ListSeq(m) = ref.s[m] /\ l_len[m] = ref.len[m]
         /\ \A x \in Elems : ref.list[x] # Nil => list[x] = ref.list[x]
    /\ CopyRuns(t) =>
         /\ ENABLED FullNext
         /\ Len(reg[t].tmp) <= Len(ref.s[op[t].val])
         /\ ~Spinning(t)

\* a list of two elements has been pushed to its own front and is doubled
CopiesInOrderWitness ==
  \E t \in Threads :
    /\ CopyAlone(t)
    /\ last[t].name = "PushFrontList"
    /\ last[t].val = last[t].key
    /\ Len(ref.s[last[t].key]) = 2
    /\ Len(ListSeq(last[t].key)) = 4

\* C31: every node mutex taken by insertFront, predecessor, remove, PopBack
\* or MoveToFront of the LRU list is released by the time the operation
\* returns, also on remove's early return for validateList and e.list # l: no
\* mutex belongs to a thread that is running no call.
LocksReleased ==
  \A x \in Nodes : mutex[x] \in Threads => pc[mutex[x]] # "idle"

\* C32: the cache never calls MoveToFront of the eviction list with a none
\* node: in every step in which Get passes the node reference of the entry
\* it read from the map to MoveToFront, that reference is set, also while
\* the worker is clearing it.
MoveToFrontOfSetNode ==
  [][\A t \in Threads :
       (pc[t] = "get_mtf" /\ pc'[t] # "get_mtf") =>
         item[reg[t].it].evictElement # Nil]_vars

\* C33: the cache's len and the eviction list stay in step: in every
\* quiescent state len equals the eviction list's Len and the number of
\* nodes linked in it; and the step that gives back a claim whose PopBack
\* returned none adds one to len, calls no callback and removes nothing from
\* the map or the list.
LenInStep ==
  /\ [](Quiescent => len = l_len[Evict] /\ len = Len(ListSeq(Evict)))
  /\ [][(pc[Worker] = "w_restore" /\ pc'[Worker] # "w_restore") =>
          /\ len' = len + 1
          /\ UNCHANGED <<evictLog, items, l_len, next, prev>>]_vars

\* the worker claimed a slot, PopBack returned none because the insertion
\* of the node is still pending, and the claim is about to be given back
LenInStepWitness ==
  /\ pc[Worker] = "w_restore"
  /\ reg[Worker].e = Nil
  /\ len + 1 = l_len[Evict]
  /\ pendingInsertions[Evict] > 0

\* C34: the node that PopBack of the LRU list removes and returns is the
\* last node before the tail at the moment it is unlinked: a node that a
\* concurrent MoveToFront has relinked at the front since PopBack looked up
\* the tail's predecessor is not the one removed.
PopBackTakesLast ==
  [][\A p \in Procs :
       (pc[p] = "rm_lock_n" /\ reg[p].who = "pb" /\ pc'[p] # "rm_lock_n") =>
         next[reg[p].e] = TailOf(reg[p].l)]_vars
====
